---- MODULE Spec2Model ----
(***************************************************************************)
(* Model of the document-to-LLM analysis pipeline of desktop_parser:       *)
(* DocAnalyzer.analyzeDocument and its helpers (content extraction, binary *)
(* heuristic, cleaning, chunking, per-chunk analysis with JSON extraction  *)
(* and repair, synthesis) together with the model client LLMService.query. *)
(*                                                                         *)
(* JavaScript values are records with a tag field t.  A JavaScript string  *)
(* is a sequence of one-character strings (Text), so that indexOf,         *)
(* substring, charCodeAt and the regular expressions of the source operate *)
(* on characters; a message literal of the source that is only ever        *)
(* carried around is kept as a TLA+ string (Lit).                          *)
(***************************************************************************)
EXTENDS Integers, Sequences, FiniteSets, TLC

----------------------------------------------------------------------------
(* JavaScript values *)

Undefined == [t |-> "undefined"]
Null == [t |-> "null"]
Text(s) == [t |-> "string", s |-> s]
Lit(m) == [t |-> "literal", m |-> m]

IsNullish(v) == v.t \in {"undefined", "null"}
IsString(v) == v.t \in {"string", "literal"}

\* !v for the values the pipeline tests
Falsy(v) ==
    \/ IsNullish(v)
    \/ v.t = "string" /\ v.s = <<>>
    \/ v.t = "literal" /\ v.m = ""
    \/ v.t = "number" /\ v.n = 0
    \/ v.t = "boolean" /\ ~v.b

\* o[k] of a JavaScript object: undefined when the key is absent
Get(o, k) == IF k \in DOMAIN o THEN o[k] ELSE Undefined

Min(S) == CHOOSE x \in S : \A y \in S : x <= y
MinOf(a, b) == IF a <= b THEN a ELSE b
MaxOf(a, b) == IF a >= b THEN a ELSE b

----------------------------------------------------------------------------
(* Characters *)

\* the character U+0060, which a TLA+ string cannot contain
BackQuote == "BACKQUOTE"

\* the printable ASCII characters, codes 32..126 in order
Ascii ==
    << " ", "!", "\"", "#", "$", "%", "&", "'", "(", ")", "*", "+", ",", "-",
       ".", "/", "0", "1", "2", "3", "4", "5", "6", "7", "8", "9", ":", ";",
       "<", "=", ">", "?", "@", "A", "B", "C", "D", "E", "F", "G", "H", "I",
       "J", "K", "L", "M", "N", "O", "P", "Q", "R", "S", "T", "U", "V", "W",
       "X", "Y", "Z", "[", "\\", "]", "^", "_", BackQuote, "a", "b", "c", "d", "e",
       "f", "g", "h", "i", "j", "k", "l", "m", "n", "o", "p", "q", "r", "s",
       "t", "u", "v", "w", "x", "y", "z", "{", "|", "}", "~" >>

\* String.prototype.charCodeAt for the characters of the model
CharCodeTable ==
    [c \in {Ascii[i] : i \in 1..Len(Ascii)} \cup {"\t", "\n", "\f", "\r"} |->
        CASE c = "\t" -> 9
          [] c = "\n" -> 10
          [] c = "\f" -> 12
          [] c = "\r" -> 13
          [] OTHER -> 31 + (CHOOSE i \in 1..Len(Ascii) : Ascii[i] = c)]

charCodeAt(c) == CharCodeTable[c]

\* the class [\x00-\x08\x0B\x0C\x0E-\x1F\x7F-\x9F]
IsControlChar(c) ==
    LET code == charCodeAt(c)
    IN  \/ code <= 8
        \/ code \in {11, 12}
        \/ code >= 14 /\ code <= 31
        \/ code >= 127 /\ code <= 159

\* the class \s
IsSpaceChar(c) == charCodeAt(c) \in {9, 10, 11, 12, 13, 32, 160}

\* the class . (anything but a line terminator)
IsDotChar(c) == charCodeAt(c) \notin {10, 13}

\* String.prototype.indexOf / lastIndexOf / includes on character sequences,
\* positions counted from 0 as in JavaScript, -1 when not found
Occurrences(s, sub) ==
    {i \in 0..(Len(s) - Len(sub)) : SubSeq(s, i + 1, i + Len(sub)) = sub}

indexOf(s, sub) ==
    IF Occurrences(s, sub) = {} THEN -1 ELSE Min(Occurrences(s, sub))

lastIndexOf(s, sub) ==
    IF Occurrences(s, sub) = {} THEN -1
    ELSE CHOOSE i \in Occurrences(s, sub) : \A j \in Occurrences(s, sub) : j <= i

includes(s, sub) == Occurrences(s, sub) # {}

\* s.lastIndexOf(sub, fromIndex): the last occurrence that starts at or
\* before fromIndex
lastIndexOfFrom(s, sub, fromIndex) ==
    LET upTo == {i \in Occurrences(s, sub) : i <= fromIndex}
    IN  IF upTo = {} THEN -1 ELSE CHOOSE i \in upTo : \A j \in upTo : j <= i

\* s.substring(from, to) for 0 <= from
substring(s, from, to) == SubSeq(s, from + 1, MinOf(to, Len(s)))

\* s.trim() === ''
IsBlank(s) == \A i \in 1..Len(s) : IsSpaceChar(s[i])

----------------------------------------------------------------------------
(* JSON.stringify, as far as _extractContent needs it: an object whose     *)
(* properties are strings, serialised in the order content, text, data,    *)
(* fileName (the order in which the documents of the model define them).   *)

RECURSIVE JsonEscape(_)
JsonEscape(s) ==
    IF s = <<>> THEN <<>>
    ELSE (CASE Head(s) = "\"" -> <<"\\", "\"">>
            [] Head(s) = "\\" -> <<"\\", "\\">>
            [] Head(s) = "\n" -> <<"\\", "n">>
            [] Head(s) = "\t" -> <<"\\", "t">>
            [] Head(s) = "\f" -> <<"\\", "f">>
            [] Head(s) = "\r" -> <<"\\", "r">>
            [] OTHER -> <<Head(s)>>) \o JsonEscape(Tail(s))

JsonQuote(s) == <<"\"">> \o JsonEscape(s) \o <<"\"">>

PropertyName(k) ==
    CASE k = "content" -> <<"c", "o", "n", "t", "e", "n", "t">>
      [] k = "text" -> <<"t", "e", "x", "t">>
      [] k = "data" -> <<"d", "a", "t", "a">>
      [] k = "fileName" -> <<"f", "i", "l", "e", "N", "a", "m", "e">>

RECURSIVE StringifyProperties(_, _, _)
StringifyProperties(o, keys, first) ==
    IF keys = <<>> THEN <<>>
    ELSE IF Head(keys) \in DOMAIN o /\ o[Head(keys)].t = "string"
         THEN (IF first THEN <<>> ELSE <<",">>)
              \o JsonQuote(PropertyName(Head(keys))) \o <<":">>
              \o JsonQuote(o[Head(keys)].s)
              \o StringifyProperties(o, Tail(keys), FALSE)
         ELSE StringifyProperties(o, Tail(keys), first)

JSON_stringify(o) ==
    <<"{">> \o StringifyProperties(o, <<"content", "text", "data", "fileName">>, TRUE)
    \o <<"}">>

----------------------------------------------------------------------------
(* DocAnalyzer: content extraction, validation, cleaning *)

\* document[k] is a non-empty string
IsTextProperty(document, k) ==
    ~Falsy(Get(document, k)) /\ Get(document, k).t = "string"

\* DocAnalyzer._extractContent: the text of a document, '' when there is none
_extractContent(document) ==
    IF Falsy(document) THEN <<>>
    ELSE IF document.t = "string" THEN document.s
    ELSE IF IsTextProperty(document, "content") THEN document.content.s
    ELSE IF IsTextProperty(document, "text") THEN document.text.s
    ELSE IF IsTextProperty(document, "data") THEN document.data.s
    ELSE JSON_stringify(document)

BinarySampleSize == 1000
BinarySignatureWindow == 20

binarySignatures ==
    { <<"%", "P", "D", "F", "-">>, <<"P", "K">>, <<"I", "D", "3">>,
      <<"G", "I", "F">>, <<"P", "N", "G">>, <<"J", "F", "I", "F">>,
      <<"B", "M">>, <<"M", "Z">> }

IsNonPrintableCode(code) ==
    \/ code < 32 /\ code # 9 /\ code # 10 /\ code # 13
    \/ code >= 127 /\ code <= 159

\* DocAnalyzer._isBinaryContent
_isBinaryContent(text) ==
    IF text = <<>> THEN TRUE
    ELSE LET sampleSize == MinOf(Len(text), BinarySampleSize)
             nonPrintableCount ==
                 Cardinality({i \in 1..sampleSize : IsNonPrintableCode(charCodeAt(text[i]))})
             start == substring(text, 0, BinarySignatureWindow)
         IN  IF nonPrintableCount * 10 > sampleSize THEN TRUE
             ELSE \E sig \in binarySignatures : includes(start, sig)

BinaryRunMin == 100
RepeatRunMin == 21
SpaceRunMin == 3

BinaryMarker ==
    <<"[", "B", "I", "N", "A", "R", "Y", " ", "D", "A", "T", "A", " ",
      "R", "E", "M", "O", "V", "E", "D", "]">>

RepeatMarker ==
    <<" ", "[", "R", "E", "P", "E", "A", "T", "E", "D", " ", "C", "H", "A", "R", "S",
      " ", "R", "E", "M", "O", "V", "E", "D", "]", " ">>

\* the index of the last character of the maximal run that starts at i, the
\* run being ended by the first later position in stops
RunEnd(t, i, stops) ==
    IF {j \in stops : j > i} = {} THEN Len(t) ELSE Min({j \in stops : j > i}) - 1

\* .replace(/[\x00-\x08\x0B\x0C\x0E-\x1F\x7F-\x9F]/g, '')
RemoveControlChars(t) == SelectSeq(t, LAMBDA c : ~IsControlChar(c))

\* .replace(/[^\s]{100,}/g, '[BINARY DATA REMOVED]'): the leftmost match is the
\* first run of at least 100 non-space characters and the greedy quantifier
\* takes the whole run; the scan resumes after it
RECURSIVE RemoveLongTokens(_)
RemoveLongTokens(t) ==
    LET starts == {i \in 1..(Len(t) - BinaryRunMin + 1) :
                      /\ ~IsSpaceChar(t[i])
                      /\ (i = 1 \/ IsSpaceChar(t[i - 1]))
                      /\ \A k \in 1..(BinaryRunMin - 1) : ~IsSpaceChar(t[i + k])}
    IN  IF starts = {} THEN t
        ELSE LET i == Min(starts)
                 e == RunEnd(t, i, {j \in 1..Len(t) : IsSpaceChar(t[j])})
             IN  SubSeq(t, 1, i - 1) \o BinaryMarker
                 \o RemoveLongTokens(SubSeq(t, e + 1, Len(t)))

\* .replace(/(.)\1{20,}/g, '$1$1$1 [REPEATED CHARS REMOVED] ')
RECURSIVE LimitRepeatedChars(_)
LimitRepeatedChars(t) ==
    LET starts == {i \in 1..(Len(t) - RepeatRunMin + 1) :
                      /\ IsDotChar(t[i])
                      /\ (i = 1 \/ t[i - 1] # t[i])
                      /\ \A k \in 1..(RepeatRunMin - 1) : t[i + k] = t[i]}
    IN  IF starts = {} THEN t
        ELSE LET i == Min(starts)
                 e == RunEnd(t, i, {j \in 1..Len(t) : t[j] # t[i]})
             IN  SubSeq(t, 1, i - 1) \o <<t[i], t[i], t[i]>> \o RepeatMarker
                 \o LimitRepeatedChars(SubSeq(t, e + 1, Len(t)))

\* .replace(/\s{3,}/g, '\n\n')
RECURSIVE CollapseWhitespace(_)
CollapseWhitespace(t) ==
    LET starts == {i \in 1..(Len(t) - SpaceRunMin + 1) :
                      /\ IsSpaceChar(t[i])
                      /\ (i = 1 \/ ~IsSpaceChar(t[i - 1]))
                      /\ \A k \in 1..(SpaceRunMin - 1) : IsSpaceChar(t[i + k])}
    IN  IF starts = {} THEN t
        ELSE LET i == Min(starts)
                 e == RunEnd(t, i, {j \in 1..Len(t) : ~IsSpaceChar(t[j])})
             IN  SubSeq(t, 1, i - 1) \o <<"\n", "\n">>
                 \o CollapseWhitespace(SubSeq(t, e + 1, Len(t)))

\* DocAnalyzer._cleanTextContent
_cleanTextContent(text) ==
    IF text = <<>> THEN <<>>
    ELSE CollapseWhitespace(LimitRepeatedChars(RemoveLongTokens(RemoveControlChars(text))))

\* the chunk size fixed in the _splitIntoChunks that is in effect
chunkSize == 4000

\* the for loop of _splitIntoChunks: chunks.push(text.slice(i, i + chunkSize))
RECURSIVE SliceFrom(_, _)
SliceFrom(text, i) ==
    IF i < Len(text)
    THEN <<substring(text, i, i + chunkSize)>> \o SliceFrom(text, i + chunkSize)
    ELSE <<>>

\* only the first slice is returned
_splitIntoChunks_firstSliceOnly(text) ==
    IF text = <<>> THEN <<>> ELSE <<substring(text, 0, chunkSize)>>

\* DocAnalyzer._splitIntoChunks (the second definition of the class, which
\* replaces the first): fixed-size slices, no overlap, options ignored
_splitIntoChunks(text) == IF text = <<>> THEN <<>> ELSE SliceFrom(text, 0)

----------------------------------------------------------------------------
(* Outcome of a call that may throw *)

Return(v) == [threw |-> FALSE, value |-> v]
Throw(m) == [threw |-> TRUE, error |-> m]

----------------------------------------------------------------------------
(* JSON.parse on character sequences.  Values: null, booleans, integers,   *)
(* strings, arrays, objects (members in source order).  Fractions,         *)
(* exponents and the escapes \b and \uXXXX are not covered: the texts of   *)
(* the model contain none.                                                 *)

Num(n) == [t |-> "number", n |-> n]
Bool(b) == [t |-> "boolean", b |-> b]
JsonObject(members) == [t |-> "object", members |-> members]
JsonArray(elements) == [t |-> "array", elements |-> elements]

ParseFail == [ok |-> FALSE]
ParseOk(v, i) == [ok |-> TRUE, v |-> v, i |-> i]

IsJsonWhitespace(c) == c \in {" ", "\t", "\n", "\r"}
Digits == {"0", "1", "2", "3", "4", "5", "6", "7", "8", "9"}
DigitValue(c) == charCodeAt(c) - 48

\* the characters of s at the 1-based positions i .. i+n-1 (fewer at the end)
Peek(s, i, n) == substring(s, i - 1, i - 1 + n)

RECURSIVE SkipWhitespace(_, _)
SkipWhitespace(s, i) ==
    IF i <= Len(s) /\ IsJsonWhitespace(s[i]) THEN SkipWhitespace(s, i + 1) ELSE i

RECURSIVE ParseDigits(_, _, _)
ParseDigits(s, i, acc) ==
    IF i <= Len(s) /\ s[i] \in Digits
    THEN ParseDigits(s, i + 1, acc * 10 + DigitValue(s[i]))
    ELSE [n |-> acc, i |-> i]

ParseNumber(s, i) ==
    LET negative == s[i] = "-"
        j == IF negative THEN i + 1 ELSE i
    IN  IF j > Len(s) \/ s[j] \notin Digits THEN ParseFail
        ELSE IF s[j] = "0" THEN ParseOk(Num(0), j + 1)
        ELSE LET d == ParseDigits(s, j, 0)
             IN  ParseOk(Num(IF negative THEN 0 - d.n ELSE d.n), d.i)

\* the rest of a string literal whose opening quote has been consumed
RECURSIVE ParseChars(_, _, _)
ParseChars(s, i, acc) ==
    IF i > Len(s) THEN ParseFail
    ELSE IF s[i] = "\"" THEN ParseOk(Text(acc), i + 1)
    ELSE IF s[i] = "\\"
         THEN IF i + 1 > Len(s) THEN ParseFail
              ELSE IF s[i + 1] \in {"\"", "\\", "/"}
                   THEN ParseChars(s, i + 2, Append(acc, s[i + 1]))
              ELSE IF s[i + 1] = "n" THEN ParseChars(s, i + 2, Append(acc, "\n"))
              ELSE IF s[i + 1] = "t" THEN ParseChars(s, i + 2, Append(acc, "\t"))
              ELSE IF s[i + 1] = "r" THEN ParseChars(s, i + 2, Append(acc, "\r"))
              ELSE IF s[i + 1] = "f" THEN ParseChars(s, i + 2, Append(acc, "\f"))
              ELSE ParseFail
    ELSE IF charCodeAt(s[i]) < 32 THEN ParseFail
    ELSE ParseChars(s, i + 1, Append(acc, s[i]))

RECURSIVE ParseValue(_, _)
RECURSIVE ParseMembers(_, _, _)
RECURSIVE ParseElements(_, _, _)

ParseValue(s, from) ==
    LET i == SkipWhitespace(s, from)
    IN  IF i > Len(s) THEN ParseFail
        ELSE IF s[i] = "{"
             THEN LET j == SkipWhitespace(s, i + 1)
                  IN  IF j <= Len(s) /\ s[j] = "}"
                      THEN ParseOk(JsonObject(<<>>), j + 1)
                      ELSE ParseMembers(s, j, <<>>)
        ELSE IF s[i] = "["
             THEN LET j == SkipWhitespace(s, i + 1)
                  IN  IF j <= Len(s) /\ s[j] = "]"
                      THEN ParseOk(JsonArray(<<>>), j + 1)
                      ELSE ParseElements(s, j, <<>>)
        ELSE IF s[i] = "\"" THEN ParseChars(s, i + 1, <<>>)
        ELSE IF s[i] = "-" \/ s[i] \in Digits THEN ParseNumber(s, i)
        ELSE IF Peek(s, i, 4) = <<"n", "u", "l", "l">> THEN ParseOk(Null, i + 4)
        ELSE IF Peek(s, i, 4) = <<"t", "r", "u", "e">> THEN ParseOk(Bool(TRUE), i + 4)
        ELSE IF Peek(s, i, 5) = <<"f", "a", "l", "s", "e">> THEN ParseOk(Bool(FALSE), i + 5)
        ELSE ParseFail

\* the members of an object from position i (the first member's opening quote)
ParseMembers(s, i, acc) ==
    IF i > Len(s) \/ s[i] # "\"" THEN ParseFail
    ELSE LET key == ParseChars(s, i + 1, <<>>)
         IN  IF ~key.ok THEN ParseFail
             ELSE LET colon == SkipWhitespace(s, key.i)
                  IN  IF colon > Len(s) \/ s[colon] # ":" THEN ParseFail
                      ELSE LET val == ParseValue(s, colon + 1)
                           IN  IF ~val.ok THEN ParseFail
                               ELSE LET k == SkipWhitespace(s, val.i)
                                        members == Append(acc, [k |-> key.v.s, v |-> val.v])
                                    IN  IF k > Len(s) THEN ParseFail
                                        ELSE IF s[k] = "}" THEN ParseOk(JsonObject(members), k + 1)
                                        ELSE IF s[k] = ","
                                             THEN ParseMembers(s, SkipWhitespace(s, k + 1), members)
                                        ELSE ParseFail

\* the elements of an array from position i
ParseElements(s, i, acc) ==
    LET val == ParseValue(s, i)
    IN  IF ~val.ok THEN ParseFail
        ELSE LET k == SkipWhitespace(s, val.i)
                 elements == Append(acc, val.v)
             IN  IF k > Len(s) THEN ParseFail
                 ELSE IF s[k] = "]" THEN ParseOk(JsonArray(elements), k + 1)
                 ELSE IF s[k] = "," THEN ParseElements(s, k + 1, elements)
                 ELSE ParseFail

\* JSON.parse(text): the value, or a SyntaxError
JSON_parse(s) ==
    LET r == ParseValue(s, 1)
    IN  IF r.ok /\ SkipWhitespace(s, r.i) > Len(s)
        THEN Return(r.v)
        ELSE Throw(Lit("SyntaxError"))

----------------------------------------------------------------------------
(* LLMService.query: the model client *)

\* The backend either answers, with a message content that is a text or is
\* missing (Null), or fails with an error.  query returns the content, ''
\* when it is missing, and rethrows the error.
query(backend) ==
    IF backend.threw THEN Throw(backend.error)
    ELSE IF Falsy(backend.value) THEN Return(Text(<<>>))
    ELSE Return(backend.value)

----------------------------------------------------------------------------
(* DocAnalyzer: JSON extraction and repair *)

\* DocAnalyzer._extractJsonFromText: from the first '{' to the last '}'
_extractJsonFromText(text) ==
    IF Falsy(text) THEN Null
    ELSE LET jsonStartIndex == indexOf(text.s, <<"{">>)
             jsonEndIndex == lastIndexOf(text.s, <<"}">>)
         IN  IF jsonStartIndex >= 0 /\ jsonEndIndex > jsonStartIndex
             THEN Text(substring(text.s, jsonStartIndex, jsonEndIndex + 1))
             ELSE Null

Fence == <<BackQuote, BackQuote, BackQuote>>

\* .replace(/```json|```/g, '')
RECURSIVE RemoveFences(_)
RemoveFences(s) ==
    IF s = <<>> THEN <<>>
    ELSE IF Peek(s, 1, 7) = Fence \o <<"j", "s", "o", "n">>
         THEN RemoveFences(SubSeq(s, 8, Len(s)))
    ELSE IF Peek(s, 1, 3) = Fence THEN RemoveFences(SubSeq(s, 4, Len(s)))
    ELSE <<Head(s)>> \o RemoveFences(Tail(s))

\* String.prototype.trim
trim(s) ==
    LET kept == {i \in 1..Len(s) : ~IsSpaceChar(s[i])}
    IN  IF kept = {} THEN <<>>
        ELSE SubSeq(s, Min(kept), CHOOSE i \in kept : \A j \in kept : j <= i)

\* .replace(/(?<!\\)"/g, '\\"'): a backslash before every quote that has none
RECURSIVE EscapeQuotesFrom(_, _)
EscapeQuotesFrom(s, i) ==
    IF i > Len(s) THEN <<>>
    ELSE (IF s[i] = "\"" /\ (i = 1 \/ s[i - 1] # "\\")
          THEN <<"\\", "\"">>
          ELSE <<s[i]>>) \o EscapeQuotesFrom(s, i + 1)

\* .replace(/\\\\"/g, '\\"'): two backslashes and a quote become one and a quote
RECURSIVE FixDoubleEscaping(_)
FixDoubleEscaping(s) ==
    IF s = <<>> THEN <<>>
    ELSE IF Peek(s, 1, 3) = <<"\\", "\\", "\"">>
         THEN <<"\\", "\"">> \o FixDoubleEscaping(SubSeq(s, 4, Len(s)))
    ELSE <<Head(s)>> \o FixDoubleEscaping(Tail(s))

\* .replace(/'/g, '"')
ReplaceSingleQuotes(s) == [i \in 1..Len(s) |-> IF s[i] = "'" THEN "\"" ELSE s[i]]

\* cleaned.match(/{[^]*}/): from the first '{' to the last '}' after it
MatchObject(s) ==
    LET first == indexOf(s, <<"{">>)
        last == lastIndexOf(s, <<"}">>)
    IN  IF first >= 0 /\ last > first
        THEN Text(substring(s, first, last + 1))
        ELSE Null

\* DocAnalyzer._attemptJsonFix: the repaired value, null when there is none
_attemptJsonFix(jsonStr) ==
    IF Falsy(jsonStr) THEN Null
    ELSE LET cleaned ==
                 ReplaceSingleQuotes(FixDoubleEscaping(
                     EscapeQuotesFrom(trim(RemoveFences(jsonStr.s)), 1)))
             direct == JSON_parse(cleaned)
             objectMatches == MatchObject(cleaned)
         IN  IF ~direct.threw THEN direct.value
             ELSE IF Falsy(objectMatches) THEN Null
             ELSE IF JSON_parse(objectMatches.s).threw THEN Null
             ELSE JSON_parse(objectMatches.s).value

----------------------------------------------------------------------------
(* DocAnalyzer: per-chunk analysis *)

ChunkFailed(error, rawContent) ==
    [t |-> "object", success |-> FALSE, error |-> error, rawContent |-> rawContent]

ChunkOk(data, rawContent) ==
    [t |-> "object", success |-> TRUE, data |-> data, rawContent |-> rawContent]

ChunkOkFixed(data, rawContent) ==
    [t |-> "object", success |-> TRUE, data |-> data, wasFixed |-> TRUE,
     rawContent |-> rawContent]

\* a region that does not parse is given up without the repair
_analyzeChunkWithLLM_noRepair(answer) ==
    IF answer.threw THEN ChunkFailed(answer.error, Text(<<>>))
    ELSE LET response == answer.value
             jsonContent == _extractJsonFromText(response)
         IN  IF Falsy(response) \/ IsBlank(response.s)
             THEN ChunkFailed(Lit("Empty response from LLM"), Text(<<>>))
             ELSE IF ~Falsy(jsonContent) /\ ~JSON_parse(jsonContent.s).threw
             THEN ChunkOk(JSON_parse(jsonContent.s).value, response)
             ELSE ChunkFailed(Lit("JSON parsing failed"), response)

\* DocAnalyzer._analyzeChunkWithLLM from the point where the awaited query
\* settles with outcome answer: the chunk result it resolves to
_analyzeChunkWithLLM(answer) ==
    IF answer.threw THEN ChunkFailed(answer.error, Text(<<>>))
    ELSE LET response == answer.value
             jsonContent == _extractJsonFromText(response)
         IN  IF Falsy(response) \/ IsBlank(response.s)
             THEN ChunkFailed(Lit("Empty response from LLM"), Text(<<>>))
             ELSE IF ~Falsy(jsonContent) /\ ~JSON_parse(jsonContent.s).threw
             THEN ChunkOk(JSON_parse(jsonContent.s).value, response)
             ELSE IF ~Falsy(jsonContent) /\ ~Falsy(_attemptJsonFix(jsonContent))
             THEN ChunkOkFixed(_attemptJsonFix(jsonContent), response)
             ELSE ChunkFailed(Lit("JSON parsing failed"), response)

\* DocAnalyzer.testLLMResponse from the point where its query settles
testLLMResponse(answer) ==
    IF answer.threw THEN FALSE
    ELSE IF Falsy(answer.value) \/ IsBlank(answer.value.s) THEN FALSE
    ELSE ~JSON_parse(answer.value.s).threw

----------------------------------------------------------------------------
(* DocAnalyzer: synthesis *)

\* the filter keeps every result
validResultsOf_keepAll(chunkResults) == chunkResults

\* the filter loses the first result it should keep
validResultsOf_dropFirst(chunkResults) ==
    LET kept == SelectSeq(chunkResults, LAMBDA result : Falsy(Get(result, "error")))
    IN  IF kept = <<>> THEN kept ELSE Tail(kept)

\* chunkResults.filter(result => !result.error)
validResultsOf(chunkResults) ==
    SelectSeq(chunkResults, LAMBDA result : Falsy(Get(result, "error")))

NoValidResults ==
    [t |-> "object",
     error |-> Lit("No valid analysis results to synthesize"),
     message |-> Lit("All chunks failed analysis")]

PreviewLength == 500

\* originalContent.substring(0, 500) + (originalContent.length > 500 ? "..." : "")
contentSummary(originalContent) ==
    substring(originalContent, 0, PreviewLength)
    \o (IF Len(originalContent) > PreviewLength THEN <<".", ".", ".">> ELSE <<>>)

\* DocAnalyzer._basicCombineResults: each branch calls a method that the class
\* does not define, so the call throws a TypeError
_basicCombineResults(results, analysisType) ==
    CASE analysisType = "outline" ->
             Throw(Lit("this._combineOutlineResults is not a function"))
      [] analysisType = "importance" ->
             Throw(Lit("this._combineImportanceResults is not a function"))
      [] OTHER ->
             Throw(Lit("this._combineComprehensiveResults is not a function"))

\* DocAnalyzer._synthesizeResults from the point where the merge query settles
\* with outcome answer: the value it resolves to, or the error it rejects with
_synthesizeResults(answer, validResults, analysisType) ==
    IF answer.threw THEN _basicCombineResults(validResults, analysisType)
    ELSE IF answer.value.t \in {"object", "array", "null"} THEN Return(answer.value)
    ELSE IF ~JSON_parse(answer.value.s).threw
         THEN Return(JSON_parse(answer.value.s).value)
         ELSE Return([t |-> "object",
                      synthesisError |-> Lit("Could not parse synthesis result"),
                      rawSynthesis |-> answer.value])

----------------------------------------------------------------------------
(* Inputs *)

\* the largest number of chunks of a document of the model
MaxChunks == 3

Prose(n) == [i \in 1..n |-> IF i % 3 = 0 THEN " " ELSE "a"]
Repeated(c, n) == [i \in 1..n |-> c]

ShortText == <<"s", "h", "o", "r", "t", " ", "d", "o", "c">>
FileName == <<"f", ".", "d", "o", "c", "x">>

\* the documents handed to analyzeDocument: absent, strings (empty, short,
\* with a binary signature, with few and with many control characters, one
\* long token, prose of 1..MaxChunks chunks) and objects (without a text
\* property, with content, with text and fileName, with an empty data)
Documents ==
    { Null, Undefined,
      Text(<<>>),
      Text(ShortText),
      Text(<<"P", "K">> \o ShortText),
      Text(<<"\f">> \o ShortText),
      Text(<<"\f", "\f">> \o ShortText),
      Text(Repeated("a", chunkSize + 1)),
      [t |-> "object"],
      [t |-> "object", content |-> Text(ShortText)],
      [t |-> "object", text |-> Text(Prose(chunkSize + 1)), fileName |-> Text(FileName)],
      [t |-> "object", data |-> Text(<<>>), fileName |-> Text(FileName)] }
    \cup {Text(Prose((k - 1) * chunkSize + 1)) : k \in 1..MaxChunks}
    \cup {Text(Prose(chunkSize))}

AnalysisTypes == {"comprehensive", "outline"}

JsonText == <<"{", "\"", "a", "\"", ":", "1", "}">>
SingleQuotedText == <<"{", "'", "a", "'", ":", "1", "}">>
NullText == <<"n", "u", "l", "l">>

\* what the backend does with one request: a JSON object, near-valid JSON,
\* the JSON value null, no content, an error
BackendOutcomes ==
    { Return(Text(JsonText)), Return(Text(SingleQuotedText)),
      Return(Text(NullText)), Return(Null), Throw(Lit("Connection error.")) }

\* what the backend does with the probe request: valid JSON, no content, an
\* error
ProbeOutcomes ==
    { Return(Text(JsonText)), Return(Null), Throw(Lit("Connection error.")) }

----------------------------------------------------------------------------
(* Construction: the services as main.js builds them *)

\* CONFIG.llm of main.js, as far as the token budget goes
CONFIG_llm == [t |-> "object", maxTokens |-> Num(2000)]

\* LLMService constructor: this.maxTokens = options.maxTokens || 4000
LLMService_maxTokens(serviceOptions) ==
    IF Falsy(Get(serviceOptions, "maxTokens")) THEN Num(4000)
    ELSE serviceOptions.maxTokens

\* LLMService.query: max_tokens: options.maxTokens || this.maxTokens
max_tokens(queryOptions) ==
    IF Falsy(Get(queryOptions, "maxTokens")) THEN LLMService_maxTokens(CONFIG_llm)
    ELSE queryOptions.maxTokens

\* DocAnalyzer constructor: { maxChunkSize: 4000, overlapSize: 200, ...options }
DocAnalyzerOptions(given) ==
    [k \in {"t", "maxChunkSize", "overlapSize"} \cup DOMAIN given |->
        IF k \in DOMAIN given THEN given[k]
        ELSE IF k = "maxChunkSize" THEN 4000
        ELSE IF k = "overlapSize" THEN 200
        ELSE "object"]

----------------------------------------------------------------------------
(* DocAnalyzer.analyzeDocument as a state machine: one action per stretch  *)
(* of code between two awaits.                                             *)

VARIABLES
    pc,            \* where analyzeDocument is: idle, probe, chunks, merge, done
    document,      \* the document argument
    analysisType,  \* the analysisType argument
    content,       \* the local content
    chunks,        \* the local chunks
    probeOk,       \* what testLLMResponse returned
    calls,         \* the calls of llmService.query, in the order of issue
    chunkResults,  \* what each _analyzeChunkWithLLM promise has resolved to
    envelope,      \* what analyzeDocument has returned
    analysisOptions, \* the analysisOptions argument
    overtaken,     \* observer: a chunk query settled before that of an earlier chunk
    options,       \* this.options of the DocAnalyzer
    startPos,      \* the local startPos of the boundary-preferring splitter
    position,      \* the local position of the splitter of doc-analyzer.js
    startIndex,    \* the local startIndex of LLMService._splitTextIntoChunks
    currentDocument,    \* renderer: let currentDocument
    currentResults,     \* renderer: let currentResults
    uploadButton,       \* renderer: the element upload-btn
    analyzeButton,      \* renderer: the element analyze-btn
    saveButton,         \* renderer: the element save-btn
    analysisTypeSelect, \* renderer: the element analysis-type
    inFlight,      \* renderer: the handlers suspended at their await
    saved,         \* renderer: the arguments of the call of saveResults in flight
    analysed       \* renderer observer: the analysis behind currentResults, the
                   \* document it was given and the envelope it returned

\* the state of the renderer process
rendererVars == <<currentDocument, currentResults, uploadButton, analyzeButton,
                  saveButton, analysisTypeSelect, inFlight, saved, analysed>>

vars == <<pc, document, analysisType, content, chunks, probeOk, calls,
          chunkResults, envelope, analysisOptions, overtaken, options,
          startPos, position, startIndex, rendererVars>>

\* what the analysis pipeline of part_001 never writes
splitterVars == <<options, startPos, position, startIndex, rendererVars>>

\* the renderer once initializeApp has run: nothing loaded, updateUIState
\* has set the buttons, the first analysis type is selected
initializeApp ==
    /\ currentDocument = Null
    /\ currentResults = Null
    /\ uploadButton = [disabled |-> FALSE]
    /\ analyzeButton = [disabled |-> TRUE]
    /\ saveButton = [disabled |-> TRUE]
    /\ analysisTypeSelect = [value |-> "general"]
    /\ inFlight = <<>>
    /\ saved = Undefined
    /\ analysed = Undefined

NoOptions == [t |-> "object"]

Pending == [t |-> "pending"]

\* a call of llmService.query: for which chunk (0 for the probe and the
\* merge), what the request carries (the token budget of a chunk query, what
\* the merge prompt embeds), and how the call has ended
Call(kind, chunk, payload) ==
    [kind |-> kind, chunk |-> chunk, payload |-> payload,
     status |-> "outstanding", answer |-> Undefined]

\* the call at position j settles with outcome answer
Settle(log, j, answer) ==
    [log EXCEPT ![j] = [@ EXCEPT !.status = IF answer.threw THEN "rejected"
                                              ELSE "resolved",
                                  !.answer = answer]]

CallsOfKind(kind) == {j \in 1..Len(calls) : calls[j].kind = kind}
Outstanding(kind) == {j \in CallsOfKind(kind) : calls[j].status = "outstanding"}

Init ==
    /\ pc = "idle"
    /\ document = Undefined
    /\ analysisType = "comprehensive"
    /\ content = <<>>
    /\ chunks = <<>>
    /\ probeOk = Undefined
    /\ calls = <<>>
    /\ chunkResults = <<>>
    /\ envelope = Undefined
    /\ analysisOptions = NoOptions
    /\ overtaken = FALSE
    /\ options = DocAnalyzerOptions(NoOptions)
    /\ startPos = 0
    /\ position = 0
    /\ startIndex = 0
    /\ initializeApp

\* the three shapes analyzeDocument returns
InvalidContentEnvelope ==
    [t |-> "object", success |-> FALSE,
     error |-> Lit("Invalid or binary content detected"), data |-> Null]

CaughtEnvelope(message) ==
    [t |-> "object", success |-> FALSE, error |-> message, data |-> Null]

SingleChunkEnvelope(result, type, text) ==
    [t |-> "object", success |-> TRUE, data |-> result,
     meta |-> [t |-> "object", analysisType |-> type, chunkCount |-> 1,
               documentLength |-> Len(text)]]

documentName(doc) ==
    IF Falsy(Get(doc, "fileName")) THEN Lit("unknown") ELSE doc.fileName

MultiChunkEnvelope(combined, type, parts, text, doc) ==
    [t |-> "object", success |-> TRUE, data |-> combined,
     meta |-> [t |-> "object", analysisType |-> type, chunkCount |-> Len(parts),
               documentLength |-> Len(text), documentName |-> documentName(doc),
               timestamp |-> Lit("toISOString")]]

\* the probe is sent before the content is validated
AnalyzeDocument_probeFirst(doc, type, opts) ==
    /\ pc = "idle"
    /\ document' = doc
    /\ analysisType' = type
    /\ analysisOptions' = opts
    /\ content' = _extractContent(doc)
    /\ calls' = Append(calls, Call("probe", 0, Undefined))
    /\ IF content' = <<>> \/ _isBinaryContent(content')
       THEN /\ pc' = "done"
            /\ envelope' = InvalidContentEnvelope
       ELSE /\ pc' = "probe"
            /\ UNCHANGED envelope
    /\ UNCHANGED <<chunks, probeOk, chunkResults, overtaken, splitterVars>>

\* analyzeDocument is called: extraction and validation, then either the
\* rejection or the probe query of testLLMResponse
AnalyzeDocument(doc, type, opts) ==
    /\ pc = "idle"
    /\ document' = doc
    /\ analysisType' = type
    /\ analysisOptions' = opts
    /\ content' = _extractContent(doc)
    /\ IF content' = <<>> \/ _isBinaryContent(content')
       THEN /\ pc' = "done"
            /\ envelope' = InvalidContentEnvelope
            /\ UNCHANGED calls
       ELSE /\ pc' = "probe"
            /\ calls' = Append(calls, Call("probe", 0, Undefined))
            /\ UNCHANGED envelope
    /\ UNCHANGED <<chunks, probeOk, chunkResults, overtaken, splitterVars>>

\* a failed probe ends the analysis
ProbeSettles_gated(backend) ==
    /\ pc = "probe"
    /\ probeOk' = Bool(testLLMResponse(query(backend)))
    /\ calls' = Settle(calls, Min(Outstanding("probe")), query(backend))
    /\ IF testLLMResponse(query(backend))
       THEN /\ content' = _cleanTextContent(content)
            /\ chunks' = _splitIntoChunks(content')
            /\ chunkResults' = [i \in 1..Len(chunks') |-> Pending]
            /\ pc' = "chunks"
            /\ UNCHANGED envelope
       ELSE /\ envelope' = CaughtEnvelope(Lit("LLM test failed"))
            /\ pc' = "done"
            /\ UNCHANGED <<content, chunks, chunkResults>>
    /\ UNCHANGED <<document, analysisType, analysisOptions, overtaken,
                   splitterVars>>

\* the chunks are analysed one after the other: only the query of the first
\* chunk is issued
ProbeSettles_oneAtATime(backend) ==
    /\ pc = "probe"
    /\ probeOk' = Bool(testLLMResponse(query(backend)))
    /\ content' = _cleanTextContent(content)
    /\ chunks' = _splitIntoChunks(content')
    /\ calls' = Append(Settle(calls, Min(Outstanding("probe")), query(backend)),
                       Call("chunk", 1, [max_tokens |-> max_tokens(analysisOptions)]))
    /\ chunkResults' = [i \in 1..Len(chunks') |-> Pending]
    /\ pc' = "chunks"
    /\ UNCHANGED <<document, analysisType, envelope, analysisOptions, overtaken,
                   splitterVars>>

\* the probe settles: testLLMResponse returns, the content is cleaned and
\* split, and chunks.map starts one _analyzeChunkWithLLM per chunk, each of
\* which runs up to its query
ProbeSettles(backend) ==
    /\ pc = "probe"
    /\ probeOk' = Bool(testLLMResponse(query(backend)))
    /\ content' = _cleanTextContent(content)
    /\ chunks' = _splitIntoChunks(content')
    /\ calls' = Settle(calls, Min(Outstanding("probe")), query(backend))
                \o [i \in 1..Len(chunks') |->
                       Call("chunk", i, [max_tokens |-> max_tokens(analysisOptions)])]
    /\ chunkResults' = [i \in 1..Len(chunks') |-> Pending]
    /\ pc' = "chunks"
    /\ UNCHANGED <<document, analysisType, envelope, analysisOptions, overtaken,
                   splitterVars>>

\* the results are collected in the order of completion
ChunkResolves_completionOrder(i, backend) ==
    /\ pc = "chunks"
    /\ i \in 1..Len(chunks)
    /\ \E j \in Outstanding("chunk") : calls[j].chunk = i
    /\ chunkResults' =
           [chunkResults EXCEPT
               ![Min({k \in 1..Len(chunks) : chunkResults[k].t = "pending"})] =
                   _analyzeChunkWithLLM(query(backend))]
    /\ calls' = Settle(calls,
                       CHOOSE j \in Outstanding("chunk") : calls[j].chunk = i,
                       query(backend))
    /\ UNCHANGED <<pc, document, analysisType, content, chunks, probeOk, envelope,
                   analysisOptions, splitterVars>>

\* the query of chunk i settles and its _analyzeChunkWithLLM resolves:
\* Promise.all keeps the value at the index of the chunk
ChunkResolves(i, backend) ==
    /\ pc = "chunks"
    /\ i \in 1..Len(chunks)
    /\ chunkResults[i].t = "pending"
    /\ chunkResults' = [chunkResults EXCEPT ![i] = _analyzeChunkWithLLM(query(backend))]
    /\ calls' = Settle(calls,
                       CHOOSE j \in Outstanding("chunk") : calls[j].chunk = i,
                       query(backend))
    /\ UNCHANGED <<pc, document, analysisType, content, chunks, probeOk, envelope,
                   analysisOptions, splitterVars>>

\* the same, the order of completion not observed
ChunkSettles(i, backend) == ChunkResolves(i, backend) /\ UNCHANGED overtaken

\* the same, with the observer noting a query that settles while the query
\* of an earlier chunk is still outstanding
ChunkSettlesObserved(i, backend) ==
    /\ ChunkResolves(i, backend)
    /\ overtaken' = (overtaken \/ \E j \in Outstanding("chunk") : calls[j].chunk < i)

\* the synthesis starts as soon as one chunk result is in
FanIn_early ==
    /\ pc = "chunks"
    /\ \E i \in 1..Len(chunks) : chunkResults[i].t # "pending"
    /\ IF Len(chunks) = 1
       THEN /\ envelope' = SingleChunkEnvelope(chunkResults[1], analysisType, content)
            /\ pc' = "done"
            /\ UNCHANGED calls
       ELSE IF Len(validResultsOf(chunkResults)) = 0
       THEN /\ envelope' = MultiChunkEnvelope(NoValidResults, analysisType, chunks,
                                              content, document)
            /\ pc' = "done"
            /\ UNCHANGED calls
       ELSE /\ calls' = Append(calls, Call("merge", 0,
                                 [preview |-> contentSummary(content),
                                  results |-> validResultsOf(chunkResults)]))
            /\ pc' = "merge"
            /\ UNCHANGED envelope
    /\ UNCHANGED <<document, analysisType, content, chunks, probeOk, chunkResults,
                   analysisOptions, overtaken, splitterVars>>

\* Promise.all has resolved: the single-chunk return, or _synthesizeResults
\* up to its return of the sentinel or its merge query
FanIn ==
    /\ pc = "chunks"
    /\ \A i \in 1..Len(chunks) : chunkResults[i].t # "pending"
    /\ IF Len(chunks) = 1
       THEN /\ envelope' = SingleChunkEnvelope(chunkResults[1], analysisType, content)
            /\ pc' = "done"
            /\ UNCHANGED calls
       ELSE IF Len(validResultsOf(chunkResults)) = 0
       THEN /\ envelope' = MultiChunkEnvelope(NoValidResults, analysisType, chunks,
                                              content, document)
            /\ pc' = "done"
            /\ UNCHANGED calls
       ELSE /\ calls' = Append(calls, Call("merge", 0,
                                 [preview |-> contentSummary(content),
                                  results |-> validResultsOf(chunkResults)]))
            /\ pc' = "merge"
            /\ UNCHANGED envelope
    /\ UNCHANGED <<document, analysisType, content, chunks, probeOk, chunkResults,
                   analysisOptions, overtaken, splitterVars>>

\* the merge query settles: _synthesizeResults returns or throws, and
\* analyzeDocument returns the envelope or the one of its catch block
MergeSettles(backend) ==
    /\ pc = "merge"
    /\ LET combinedResults ==
               _synthesizeResults(query(backend), validResultsOf(chunkResults),
                                  analysisType)
       IN  envelope' =
               IF combinedResults.threw
               THEN CaughtEnvelope(combinedResults.error)
               ELSE MultiChunkEnvelope(combinedResults.value, analysisType, chunks,
                                       content, document)
    /\ calls' = Settle(calls, Min(Outstanding("merge")), query(backend))
    /\ pc' = "done"
    /\ UNCHANGED <<document, analysisType, content, chunks, probeOk, chunkResults,
                   analysisOptions, overtaken, splitterVars>>

Next ==
    \/ \E doc \in Documents, type \in AnalysisTypes :
           AnalyzeDocument(doc, type, NoOptions)
    \/ \E backend \in ProbeOutcomes : ProbeSettles(backend)
    \/ \E i \in 1..MaxChunks, backend \in BackendOutcomes : ChunkSettles(i, backend)
    \/ FanIn
    \/ \E backend \in BackendOutcomes : MergeSettles(backend)

Spec == Init /\ [][Next]_vars

----------------------------------------------------------------------------
(* Properties *)

NumChunks == Len(chunks)
ChunkCalls(i) == {j \in CallsOfKind("chunk") : calls[j].chunk = i}
MergeCalls == CallsOfKind("merge")
Rejected(kind) == {j \in CallsOfKind(kind) : calls[j].status = "rejected"}

\* the outcome of the query of chunk i, once settled
ChunkAnswer(i) == calls[CHOOSE j \in ChunkCalls(i) : TRUE].answer
MergeAnswer == calls[CHOOSE j \in MergeCalls : TRUE].answer

AllChunksSettled ==
    /\ NumChunks >= 1
    /\ \A i \in 1..NumChunks : chunkResults[i].t # "pending"

IsOk(result) == result.t = "object" /\ result.success
IsFailed(result) == result.t = "object" /\ ~result.success
OkChunks == {i \in 1..NumChunks : IsOk(chunkResults[i])}

DataPresent(e) == ~IsNullish(Get(e, "data"))
ErrorAbsent(e) == IsNullish(Get(e, "error"))

IsFailureEnvelope(e) ==
    /\ DOMAIN e = {"t", "success", "error", "data"}
    /\ ~e.success
    /\ e.data.t = "null"
    /\ IsString(e.error)

\* C1: every returned envelope has success == true <=> data != null <=>
\* error == null, an absent field counting as null
C1_EnvelopeContract ==
    pc = "done" =>
        /\ envelope.success <=> DataPresent(envelope)
        /\ DataPresent(envelope) <=> ErrorAbsent(envelope)

ExceptionMessages ==
    { Lit("Connection error."),
      Lit("this._combineOutlineResults is not a function"),
      Lit("this._combineImportanceResults is not a function"),
      Lit("this._combineComprehensiveResults is not a function") }

\* C2: analyzeDocument always resolves, and whenever an exception was raised
\* inside the pipeline (a query of the model client threw) the envelope is
\* exactly {success: false, error: <exception message>, data: null}
C2_ExceptionBecomesFailureEnvelope ==
    pc = "done" /\ (\E j \in 1..Len(calls) : calls[j].status = "rejected") =>
        /\ IsFailureEnvelope(envelope)
        /\ envelope.error \in ExceptionMessages

\* C3: a validated document of N chunks gets exactly one chunk query per
\* chunk, N in all, and the envelope returned has meta.chunkCount == N
C3_OneQueryPerChunkAndCount ==
    pc = "done" /\ NumChunks >= 1 =>
        /\ \A i \in 1..NumChunks : Cardinality(ChunkCalls(i)) = 1
        /\ Cardinality(CallsOfKind("chunk")) = NumChunks
        /\ Get(envelope, "meta").t = "object"
        /\ Get(envelope, "meta").chunkCount = NumChunks

\* a resolved answer that is blank or holds no JSON that parses or can be
\* repaired
ModelContentFault(answer) ==
    /\ ~answer.threw
    /\ \/ IsBlank(answer.value.s)
       \/ Falsy(_extractJsonFromText(answer.value))
       \/ /\ JSON_parse(_extractJsonFromText(answer.value).s).threw
          /\ Falsy(_attemptJsonFix(_extractJsonFromText(answer.value)))

ContentFaultErrors == {Lit("Empty response from LLM"), Lit("JSON parsing failed")}

C5_SynthesisFaultContained ==
    pc = "done" /\ NumChunks >= 2 /\ OkChunks # {} /\ Rejected("merge") # {} =>
        envelope.success /\ DataPresent(envelope)

\* C6: a merge answer that is not JSON gives the value that a throwing merge
\* query gives, and the data returned does not carry the raw merge text
C6_UnparseableMergeFallsBack ==
    pc = "done" /\ MergeCalls # {} /\ Rejected("merge") = {}
    /\ JSON_parse(MergeAnswer.value.s).threw =>
        /\ _synthesizeResults(MergeAnswer, validResultsOf(chunkResults), analysisType)
             = _synthesizeResults(Throw(Lit("Connection error.")),
                                  validResultsOf(chunkResults), analysisType)
        /\ "rawSynthesis" \notin DOMAIN Get(envelope, "data")

\* C7: a single chunk that is Ok(parsed) leads to no merge query and to an
\* envelope whose data is parsed itself
C7_SingleChunkDataDirect ==
    pc = "done" /\ NumChunks = 1 /\ IsOk(chunkResults[1]) =>
        /\ MergeCalls = {}
        /\ envelope.data = chunkResults[1].data

\* C8: when the query of a chunk throws, analyzeDocument returns
\* {success: false, error: <the thrown message>}
C8_TransportFaultFailsEnvelope ==
    pc = "done" /\ Rejected("chunk") # {} =>
        /\ ~envelope.success
        /\ \E j \in Rejected("chunk") : Get(envelope, "error") = calls[j].answer.error

InvalidContent ==
    \/ _extractContent(document) = <<>>
    \/ _isBinaryContent(_extractContent(document))

\* C10: once analyzeDocument has been called with a document whose content is
\* empty or flagged binary, it has returned success == false with an error
\* and null data, and no query of any kind has been issued
C10_RejectionBeforeAnyQuery ==
    pc # "idle" /\ InvalidContent =>
        /\ pc = "done"
        /\ ~envelope.success
        /\ ~ErrorAbsent(envelope)
        /\ ~DataPresent(envelope)
        /\ calls = <<>>

\* C10 witness: a document with a binary signature has been rejected
C10_Witness ==
    /\ pc = "done"
    /\ document.t = "string"
    /\ document.s # <<>>
    /\ _isBinaryContent(document.s)

----------------------------------------------------------------------------
(* Fan-out and fan-in: the pipeline on documents of two or more chunks,    *)
(* with the order in which the chunk queries settle observed.              *)

OrderDocuments == {Text(Prose((k - 1) * chunkSize + 1)) : k \in 2..MaxChunks}

OrderNext ==
    \/ \E doc \in OrderDocuments : AnalyzeDocument(doc, "comprehensive", NoOptions)
    \/ \E backend \in {Return(Text(JsonText))} : ProbeSettles(backend)
    \/ \E i \in 1..MaxChunks, backend \in BackendOutcomes :
           ChunkSettlesObserved(i, backend)
    \/ FanIn
    \/ \E backend \in BackendOutcomes : MergeSettles(backend)

OrderSpec == Init /\ [][OrderNext]_vars

\* C11: whatever the order in which the chunk queries settle, the chunk
\* results handed to _synthesizeResults are in chunk order: result i is the
\* one computed from the answer to the query of chunk i, and the results
\* embedded in the merge query follow that order
C11_ResultsInChunkOrder ==
    NumChunks >= 2 /\ pc \in {"merge", "done"} =>
        /\ Len(chunkResults) = NumChunks
        /\ \A i \in 1..NumChunks :
              chunkResults[i] = _analyzeChunkWithLLM(ChunkAnswer(i))
        /\ \A j \in MergeCalls :
              calls[j].payload.results =
                  validResultsOf([i \in 1..NumChunks |->
                                     _analyzeChunkWithLLM(ChunkAnswer(i))])

\* C11 witness: the results have been handed over after a chunk query
\* settled before the query of an earlier chunk, with results that differ
C11_Witness ==
    /\ NumChunks >= 2
    /\ pc \in {"merge", "done"}
    /\ overtaken
    /\ \E i, k \in 1..NumChunks : chunkResults[i] # chunkResults[k]

\* C12: in a document of two or more chunks a merge query is issued only
\* when every chunk has been queried and no chunk query is outstanding, at
\* most one merge query is ever issued, and exactly one has been issued when
\* analyzeDocument returns with at least one Ok chunk result
C12_OneMergeAfterAllChunks ==
    NumChunks >= 2 =>
        /\ MergeCalls # {} =>
              /\ Outstanding("chunk") = {}
              /\ Cardinality(CallsOfKind("chunk")) = NumChunks
              /\ AllChunksSettled
        /\ Cardinality(MergeCalls) <= 1
        /\ pc \in {"merge", "done"} /\ OkChunks # {} => Cardinality(MergeCalls) = 1

\* C12 witness: analyzeDocument has returned for a document of two or more
\* chunks, one Ok and one Failed, after its merge query
C12_Witness ==
    /\ pc = "done"
    /\ NumChunks >= 2
    /\ OkChunks # {}
    /\ \E i \in 1..NumChunks : IsFailed(chunkResults[i])
    /\ Cardinality(MergeCalls) = 1

\* C13: when exactly one of the chunk results handed to _synthesizeResults
\* is Ok, no merge query is issued and the value returned is the data of
\* that result
C13_SingleOkReturnedWithoutQuery ==
    NumChunks >= 2 /\ pc \in {"merge", "done"} /\ Cardinality(OkChunks) = 1 =>
        /\ MergeCalls = {}
        /\ pc = "done" =>
              envelope.data = chunkResults[CHOOSE i \in OkChunks : TRUE].data

\* C24: the fan-out is concurrent: while the query of any chunk is
\* outstanding, however long, the query of every chunk of the document has
\* been issued
C24_FanOutConcurrent ==
    \A j \in Outstanding("chunk") :
        \A k \in 1..NumChunks : Cardinality(ChunkCalls(k)) = 1

\* C24 witness: the queries of all chunks of a document of two or more
\* chunks are outstanding at once
C24_Witness ==
    /\ NumChunks >= 2
    /\ pc = "chunks"
    /\ Cardinality(Outstanding("chunk")) = NumChunks

\* C25: analyzeDocument returns success == true only if at least one chunk
\* analysis returned Ok: when every chunk of the document, one or many, ended
\* Failed, the envelope has success == false and a non-null error
C25_SuccessOnlyWithAnOkChunk ==
    pc = "done" /\ AllChunksSettled /\ OkChunks = {} =>
        /\ ~envelope.success
        /\ ~ErrorAbsent(envelope)

----------------------------------------------------------------------------
(* The probe: the pipeline on a document of one chunk and on one of two,   *)
(* with every kind of answer to the probe query of testLLMResponse.        *)

ProbeDocuments == {Text(ShortText), Text(Prose(chunkSize + 1))}

\* what the backend does with the probe request: valid JSON, text that does
\* not parse, an empty text, no content, an error
GateOutcomes ==
    { Return(Text(JsonText)), Return(Text(SingleQuotedText)), Return(Text(<<>>)),
      Return(Null), Throw(Lit("Connection error.")) }

ProbeNext ==
    \/ \E doc \in ProbeDocuments, type \in AnalysisTypes :
           AnalyzeDocument(doc, type, NoOptions)
    \/ \E backend \in GateOutcomes : ProbeSettles(backend)
    \/ \E i \in 1..MaxChunks, backend \in BackendOutcomes : ChunkSettles(i, backend)
    \/ FanIn
    \/ \E backend \in BackendOutcomes : MergeSettles(backend)

ProbeSpec == Init /\ [][ProbeNext]_vars

\* the envelope as the chunks of the document, the answers to the chunk
\* queries and the answer to the merge query determine it
PipelineEnvelope ==
    LET results == [i \in 1..NumChunks |-> _analyzeChunkWithLLM(ChunkAnswer(i))]
        combined == _synthesizeResults(MergeAnswer, validResultsOf(results),
                                       analysisType)
    IN  IF NumChunks = 1
        THEN SingleChunkEnvelope(results[1], analysisType, content)
        ELSE IF Len(validResultsOf(results)) = 0
        THEN MultiChunkEnvelope(NoValidResults, analysisType, chunks, content,
                                document)
        ELSE IF combined.threw THEN CaughtEnvelope(combined.error)
        ELSE MultiChunkEnvelope(combined.value, analysisType, chunks, content,
                                document)

\* C26: the probe does not gate the pipeline: whatever the probe query
\* returned or threw, once it has settled the document is split as its
\* content alone determines and every chunk has its query issued, and the
\* envelope returned is the one that these chunks and the answers to the
\* chunk and merge queries determine
C26_ProbeDoesNotGate ==
    pc \in {"chunks", "merge", "done"} =>
        /\ NumChunks >= 1
        /\ \A i \in 1..NumChunks : Cardinality(ChunkCalls(i)) = 1
        /\ Outstanding("chunk") = CallsOfKind("chunk") =>
               chunks = _splitIntoChunks(_cleanTextContent(_extractContent(document)))
        /\ pc = "done" => envelope = PipelineEnvelope

\* C26 witness: analyzeDocument has returned success for a document of two
\* chunks after a probe query that threw
C26_Witness ==
    /\ pc = "done"
    /\ NumChunks >= 2
    /\ Rejected("probe") # {}
    /\ probeOk = Bool(FALSE)
    /\ OkChunks # {}
    /\ envelope.success

----------------------------------------------------------------------------
(* The splitting step of analyzeDocument on its own: a DocAnalyzer built   *)
(* with some options splits some text (line 232).                          *)

\* the options handed to the DocAnalyzer constructor
GivenOptions ==
    { NoOptions }
    \cup {[t |-> "object", maxChunkSize |-> n] :
             n \in {1, chunkSize - 1, chunkSize + 1, 2 * chunkSize,
                    MaxChunks * chunkSize}}
    \cup {[t |-> "object", maxChunkSize |-> 2 * chunkSize, overlapSize |-> 0]}

\* the lengths of the texts split: none, one character, and one less than,
\* exactly and one more than every multiple of the chunk size
SplitLengths ==
    {0, 1} \cup {k * chunkSize + d : k \in 1..MaxChunks, d \in {-1, 0, 1}}

SplitTexts ==
    {Prose(n) : n \in SplitLengths} \cup {Repeated("b", n) : n \in SplitLengths}

SplitInit ==
    /\ pc = "split"
    /\ options \in {DocAnalyzerOptions(given) : given \in GivenOptions}
    /\ content \in SplitTexts
    /\ chunks = <<>>
    /\ document = Text(content)
    /\ analysisType = "comprehensive"
    /\ probeOk = Bool(TRUE)
    /\ calls = <<>>
    /\ chunkResults = <<>>
    /\ envelope = Undefined
    /\ analysisOptions = NoOptions
    /\ overtaken = FALSE
    /\ startPos = 0
    /\ position = 0
    /\ startIndex = 0
    /\ initializeApp

\* const chunks = this._splitIntoChunks(content)
SplitIntoChunks ==
    /\ pc = "split"
    /\ chunks' = _splitIntoChunks(content)
    /\ pc' = "split-done"
    /\ UNCHANGED <<document, analysisType, content, probeOk, calls, chunkResults,
                   envelope, analysisOptions, overtaken, splitterVars>>

SplitNext == SplitIntoChunks

SplitSpec == SplitInit /\ [][SplitNext]_vars

\* chunk after chunk, joined
RECURSIVE Joined(_)
Joined(parts) == IF parts = <<>> THEN <<>> ELSE Head(parts) \o Joined(Tail(parts))

\* C14: the chunks of a non-empty text are at least one, none is empty, and
\* joined in sequence they are the text: chunk k is the substring that starts
\* where chunk k-1 ends, the first starts at 0 and the last ends at the end,
\* so the spans have increasing starts and cover [0, length) with no gap
C14_Coverage ==
    pc = "split-done" /\ content # <<>> =>
        /\ Len(chunks) >= 1
        /\ \A k \in 1..Len(chunks) : chunks[k] # <<>>
        /\ Joined(chunks) = content

\* C14 witness: a text of more than two chunks whose length is not a
\* multiple of the chunk size has been split
C14_Witness ==
    /\ pc = "split-done"
    /\ Len(chunks) >= 3
    /\ Len(content) % chunkSize # 0

\* C15: for a DocAnalyzer built with any maxChunkSize, a non-empty text no
\* longer than options.maxChunkSize is split into exactly one chunk, the
\* text itself
C15_SingleChunkIdentity ==
    pc = "split-done" /\ content # <<>> /\ Len(content) <= options.maxChunkSize =>
        chunks = <<content>>

----------------------------------------------------------------------------
(* The boundary-preferring _splitIntoChunks (the first definition of the   *)
(* class, lines 632-676), one action per iteration of its while loop.      *)

\* the largest maxChunkSize and the longest text of this splitter's runs
MaxSize == 3
MaxTextLen == 5

\* letters, sentence ends and line breaks
BoundaryAlphabet == {"a", ".", " ", "\n"}

BoundaryTexts ==
    UNION {[1..n -> BoundaryAlphabet] : n \in 1..MaxTextLen}

\* every maxChunkSize > 0 with every 0 <= overlapSize < maxChunkSize
BoundaryOptions ==
    UNION {{DocAnalyzerOptions([t |-> "object", maxChunkSize |-> m,
                                overlapSize |-> o]) : o \in 0..(m - 1)} :
           m \in 1..MaxSize}

\* the number of chunks at which a run of the loop is cut off: a loop whose
\* start advances on every iteration pushes at most one chunk per character
IterationCap(text) == Len(text) + 1

BoundaryInit ==
    /\ pc = "boundary-call"
    /\ options \in BoundaryOptions
    /\ content \in BoundaryTexts
    /\ chunks = <<>>
    /\ startPos = 0
    /\ document = Undefined
    /\ analysisType = "comprehensive"
    /\ probeOk = Undefined
    /\ calls = <<>>
    /\ chunkResults = <<>>
    /\ envelope = Undefined
    /\ analysisOptions = NoOptions
    /\ overtaken = FALSE
    /\ position = 0
    /\ startIndex = 0
    /\ initializeApp

\* the call up to the loop: the early returns for an empty text and for a
\* text that fits one chunk
BoundarySplitEnter ==
    /\ pc = "boundary-call"
    /\ IF content = <<>>
       THEN chunks' = <<>> /\ pc' = "boundary-done"
       ELSE IF Len(content) <= options.maxChunkSize
       THEN chunks' = <<content>> /\ pc' = "boundary-done"
       ELSE chunks' = <<>> /\ pc' = "boundary-loop"
    /\ startPos' = 0
    /\ UNCHANGED <<document, analysisType, content, probeOk, calls, chunkResults,
                   envelope, analysisOptions, overtaken, options, position,
                   startIndex, rendererVars>>

\* the split position of one iteration: the last paragraph break, else the
\* last sentence end, else the hard cut, a break counting only beyond the
\* start and in the second half of the window
splitPosOf(text, from, maxChunkSize) ==
    LET endPos == from + maxChunkSize
        Unusable(p) == p <= from \/ 2 * p < 2 * endPos - maxChunkSize
        atParagraph == lastIndexOfFrom(text, <<"\n", "\n">>, endPos)
        atSentence == lastIndexOfFrom(text, <<".", " ">>, endPos)
    IN  IF ~Unusable(atParagraph) THEN atParagraph
        ELSE IF ~Unusable(atSentence) THEN atSentence
        ELSE endPos

\* one iteration of while (startPos < text.length)
BoundarySplitIterate ==
    /\ pc = "boundary-loop"
    /\ Len(chunks) < IterationCap(content)
    /\ LET endPos == startPos + options.maxChunkSize
           splitPos == splitPosOf(content, startPos, options.maxChunkSize)
       IN  IF startPos >= Len(content)
           THEN pc' = "boundary-done" /\ UNCHANGED <<chunks, startPos>>
           ELSE IF endPos >= Len(content)
           THEN /\ chunks' = Append(chunks, substring(content, startPos, Len(content)))
                /\ pc' = "boundary-done"
                /\ UNCHANGED startPos
           ELSE /\ chunks' = Append(chunks, substring(content, startPos, splitPos))
                /\ startPos' = MaxOf(startPos, splitPos - options.overlapSize)
                /\ pc' = "boundary-loop"
    /\ UNCHANGED <<document, analysisType, content, probeOk, calls, chunkResults,
                   envelope, analysisOptions, overtaken, options, position,
                   startIndex, rendererVars>>

BoundaryNext == BoundarySplitEnter \/ BoundarySplitIterate

BoundarySpec == BoundaryInit /\ [][BoundaryNext]_vars

\* C16: on every iteration of the loop that is followed by another one the
\* start of the next chunk is strictly beyond the start of the previous one
C16_StartStrictlyAdvances ==
    [][pc = "boundary-loop" /\ pc' = "boundary-loop" => startPos' > startPos]_vars

----------------------------------------------------------------------------
(* The 'document:analyze' handler of main.js and the other two entry       *)
(* points of the DocAnalyzer, extractEntities and summarizeDocument.       *)

\* the TypeError of document.substring(0, 8000) on a document that is not a
\* string
SubstringTypeError(doc) ==
    IF doc.t = "undefined"
    THEN Lit("Cannot read properties of undefined (reading 'substring')")
    ELSE IF doc.t = "null"
    THEN Lit("Cannot read properties of null (reading 'substring')")
    ELSE Lit("document.substring is not a function")

\* result.success is truthy: the success flag of an object is a boolean, and
\* a string has no such property
Succeeded(result) == "success" \in DOMAIN result /\ result.success

\* (result.error || 'Unknown error') appended to a message
WithErrorOf(message, result) ==
    IF Falsy(Get(result, "error")) THEN Lit(message \o "Unknown error")
    ELSE Lit(message \o result.error.m)

entityTypes == <<"person", "organization", "location">>

\* what extractEntities returns
EntitiesFailure(message) ==
    [t |-> "object", success |-> FALSE, error |-> message, entities |-> Null]

EntitiesEnvelope(result, doc) ==
    [t |-> "object", success |-> TRUE, entities |-> Get(result, "data"),
     meta |-> [t |-> "object", entityTypes |-> entityTypes,
               documentLength |-> Len(doc.s)]]

\* what summarizeDocument returns
SummaryFailure(message) ==
    [t |-> "object", success |-> FALSE, error |-> message, summary |-> Null]

SummaryEnvelope(result, doc) ==
    [t |-> "object", success |-> TRUE, summary |-> result.data,
     meta |-> [t |-> "object", originalLength |-> Len(doc.s),
               summaryLength |-> Len(result.data.s),
               compressionRatio |->
                   IF Len(doc.s) > 0
                   THEN [t |-> "number", over |-> <<Len(result.data.s), Len(doc.s)>>]
                   ELSE Num(0)]]

\* extractEntities is called: the prompts are built, which throws on a
\* document that is not a string, and the query is issued
ExtractEntities(doc) ==
    /\ pc = "idle"
    /\ document' = doc
    /\ IF doc.t = "string"
       THEN /\ calls' = Append(calls, Call("entities", 0, Undefined))
            /\ pc' = "entities"
            /\ UNCHANGED envelope
       ELSE /\ envelope' = EntitiesFailure(SubstringTypeError(doc))
            /\ pc' = "done"
            /\ UNCHANGED calls
    /\ UNCHANGED <<analysisType, content, chunks, probeOk, chunkResults,
                   analysisOptions, overtaken, splitterVars>>

\* the query of extractEntities settles: the result is tested for success
EntitiesSettles(backend) ==
    /\ pc = "entities"
    /\ LET result == query(backend)
       IN  envelope' =
               IF result.threw THEN EntitiesFailure(result.error)
               ELSE IF ~Succeeded(result.value)
               THEN EntitiesFailure(WithErrorOf("Entity extraction failed: ",
                                                result.value))
               ELSE EntitiesEnvelope(result.value, document)
    /\ calls' = Settle(calls, Min(Outstanding("entities")), query(backend))
    /\ pc' = "done"
    /\ UNCHANGED <<document, analysisType, content, chunks, probeOk, chunkResults,
                   analysisOptions, overtaken, splitterVars>>

\* summarizeDocument is called, in the same way
SummarizeDocument(doc) ==
    /\ pc = "idle"
    /\ document' = doc
    /\ IF doc.t = "string"
       THEN /\ calls' = Append(calls, Call("summary", 0, Undefined))
            /\ pc' = "summary"
            /\ UNCHANGED envelope
       ELSE /\ envelope' = SummaryFailure(SubstringTypeError(doc))
            /\ pc' = "done"
            /\ UNCHANGED calls
    /\ UNCHANGED <<analysisType, content, chunks, probeOk, chunkResults,
                   analysisOptions, overtaken, splitterVars>>

\* the query of summarizeDocument settles
SummarySettles(backend) ==
    /\ pc = "summary"
    /\ LET result == query(backend)
       IN  envelope' =
               IF result.threw THEN SummaryFailure(result.error)
               ELSE IF ~Succeeded(result.value)
               THEN SummaryFailure(WithErrorOf("Summarization failed: ",
                                               result.value))
               ELSE SummaryEnvelope(result.value, document)
    /\ calls' = Settle(calls, Min(Outstanding("summary")), query(backend))
    /\ pc' = "done"
    /\ UNCHANGED <<document, analysisType, content, chunks, probeOk, chunkResults,
                   analysisOptions, overtaken, splitterVars>>

\* what the handler returns for an analysis type it does not know
HandlerFailure(message) ==
    [t |-> "object", success |-> FALSE, error |-> message]

\* the handler is invoked with { text, analysisType } and dispatches; what
\* the entry point returns is what the handler returns
HandleAnalyze(text, type) ==
    IF type = "general" THEN AnalyzeDocument(text, "comprehensive", NoOptions)
    ELSE IF type = "entities" THEN ExtractEntities(text)
    ELSE IF type = "summary" THEN SummarizeDocument(text)
    ELSE /\ pc = "idle"
         /\ envelope' = HandlerFailure(Lit("Unknown analysis type: " \o type))
         /\ pc' = "done"
         /\ UNCHANGED <<document, analysisType, content, chunks, probeOk, calls,
                        chunkResults, analysisOptions, overtaken, splitterVars>>

\* the requests: the three analysis types of the handler and one it does
\* not know; no text, an empty, a short and a two-chunk text
RequestTypes == {"general", "entities", "summary", "keywords"}

RequestTexts ==
    {Undefined, Text(<<>>), Text(ShortText), Text(Prose(chunkSize + 1))}

HandlerNext ==
    \/ \E text \in RequestTexts, type \in RequestTypes : HandleAnalyze(text, type)
    \/ \E backend \in ProbeOutcomes : ProbeSettles(backend)
    \/ \E i \in 1..MaxChunks, backend \in BackendOutcomes : ChunkSettles(i, backend)
    \/ FanIn
    \/ \E backend \in BackendOutcomes : MergeSettles(backend)
    \/ \E backend \in BackendOutcomes : EntitiesSettles(backend)
    \/ \E backend \in BackendOutcomes : SummarySettles(backend)

HandlerSpec == Init /\ [][HandlerNext]_vars

EnvelopeKeys == {"success", "data", "error", "meta"}

MetaKeys ==
    {"analysisType", "chunkCount", "documentLength", "documentName", "timestamp"}

\* C17: whatever the handler returns, for each analysis type and on every
\* path, has the keys success, data, error and meta, carries its result in
\* data on success, and has a meta with analysisType, chunkCount,
\* documentLength, documentName and timestamp
C17_OneEnvelopeShape ==
    pc = "done" =>
        /\ EnvelopeKeys \subseteq DOMAIN envelope
        /\ envelope.success => DataPresent(envelope)
        /\ Get(envelope, "meta").t = "object"
        /\ MetaKeys \subseteq DOMAIN Get(envelope, "meta")

\* C27: with a query that resolves to the model's text or throws,
\* extractEntities and summarizeDocument return success == true carrying that
\* text whenever the query resolved, and success == false only when it threw
C27_ResolvedQuerySucceeds ==
    pc = "done" =>
        /\ \A j \in CallsOfKind("entities") :
              /\ calls[j].status = "resolved" =>
                     /\ envelope.success
                     /\ Get(envelope, "entities") = calls[j].answer.value
              /\ ~envelope.success => calls[j].status = "rejected"
        /\ \A j \in CallsOfKind("summary") :
              /\ calls[j].status = "resolved" =>
                     /\ envelope.success
                     /\ Get(envelope, "summary") = calls[j].answer.value
              /\ ~envelope.success => calls[j].status = "rejected"

----------------------------------------------------------------------------
(* analyzeDocument called with analysisOptions: the token budget of the    *)
(* chunk queries.                                                          *)

\* the analysisOptions of the caller: none, and a maxTokens of nothing, below,
\* at and above two thousand
CallerOptions ==
    { NoOptions }
    \cup {[t |-> "object", maxTokens |-> Num(n)] :
             n \in {0, 1000, 2000, 2001, 5000}}

BudgetDocuments == {Text(ShortText), Text(Prose(chunkSize + 1))}

BudgetNext ==
    \/ \E doc \in BudgetDocuments, opts \in CallerOptions :
           AnalyzeDocument(doc, "comprehensive", opts)
    \/ \E backend \in ProbeOutcomes : ProbeSettles(backend)
    \/ \E i \in 1..MaxChunks, backend \in BackendOutcomes : ChunkSettles(i, backend)
    \/ FanIn
    \/ \E backend \in BackendOutcomes : MergeSettles(backend)

BudgetSpec == Init /\ [][BudgetNext]_vars

\* C18: every chunk query asks the model client for at most 2000 tokens,
\* whatever maxTokens the caller of analyzeDocument supplied
C18_ChunkQueryTokensCapped ==
    \A j \in CallsOfKind("chunk") : calls[j].payload.max_tokens.n <= 2000

----------------------------------------------------------------------------
(* The chunk query of a one-chunk document settles with any response.      *)

\* the longest of the responses built from the alphabet
MaxResponseLen == 3

ResponseAlphabet == {"{", "}", "\"", "'", ":", "a", "1", " "}

WrappedJsonText == <<"x", " ">> \o JsonText \o <<" ", "y">>
FencedJsonText == Fence \o <<"j", "s", "o", "n", "\n">> \o JsonText \o <<"\n">> \o Fence
FencedSingleQuotedText == Fence \o <<"\n">> \o SingleQuotedText \o <<"\n">> \o Fence
NestedJsonText ==
    <<"{", "\"", "a", "\"", ":", "{", "\"", "b", "\"", ":", "[", "1", ",", "2",
      "]", "}", "}">>
NestedSingleQuotedText ==
    <<"{", "'", "a", "'", ":", "{", "'", "b", "'", ":", "'", "c", "'", "}", "}">>
TruncatedJsonText == <<"{", "\"", "a", "\"", ":", "1">>
TwoObjectsText == JsonText \o <<" ">> \o JsonText
MixedQuotesText == <<"{", "\"", "a", "\"", ":", "'", "b", "'", "}">>

\* the responses of the model: every string of up to MaxResponseLen
\* characters of the alphabet, and longer ones with JSON that is valid,
\* wrapped in prose, fenced, nested, single-quoted, truncated or repeated
Responses ==
    {Text(r) : r \in UNION {[1..n -> ResponseAlphabet] : n \in 0..MaxResponseLen}}
    \cup {Text(r) : r \in {JsonText, SingleQuotedText, NullText, WrappedJsonText,
                           FencedJsonText, FencedSingleQuotedText, NestedJsonText,
                           NestedSingleQuotedText, TruncatedJsonText,
                           TwoObjectsText, MixedQuotesText,
                           <<" ", "\n", "\t">>}}

\* analyzeDocument has fanned out over a document of one chunk
ResponseInit ==
    /\ pc = "chunks"
    /\ document = Text(ShortText)
    /\ analysisType = "comprehensive"
    /\ content = ShortText
    /\ chunks = <<ShortText>>
    /\ probeOk = Bool(TRUE)
    /\ calls = Settle(<<Call("probe", 0, Undefined)>>, 1, Return(Text(JsonText)))
               \o <<Call("chunk", 1, [max_tokens |-> max_tokens(NoOptions)])>>
    /\ chunkResults = <<Pending>>
    /\ envelope = Undefined
    /\ analysisOptions = NoOptions
    /\ overtaken = FALSE
    /\ options = DocAnalyzerOptions(NoOptions)
    /\ startPos = 0
    /\ position = 0
    /\ startIndex = 0
    /\ initializeApp

ResponseNext == \E response \in Responses : ChunkSettles(1, Return(response))

ResponseSpec == ResponseInit /\ [][ResponseNext]_vars

\* C19: the chunk result of a resolved response follows the table: blank
\* gives Failed("Empty response from LLM", ""); a region that parses gives
\* Ok(parsed); one that does not parse but is repaired gives Ok(repaired)
\* with wasFixed; no region, or neither parse nor repair, gives
\* Failed("JSON parsing failed", response); and the data of an Ok result is
\* always the value parsed or repaired
C19_ResponseTable ==
    pc = "chunks" /\ chunkResults[1].t # "pending" /\ ~ChunkAnswer(1).threw =>
        LET response == ChunkAnswer(1).value
            result == chunkResults[1]
            region == _extractJsonFromText(response)
            found == ~IsNullish(region)
            parses == found /\ ~JSON_parse(region.s).threw
            repaired == found /\ ~parses /\ ~IsNullish(_attemptJsonFix(region))
        IN  /\ IsBlank(response.s) =>
                  result = ChunkFailed(Lit("Empty response from LLM"), Text(<<>>))
            /\ ~IsBlank(response.s) /\ parses =>
                  result = ChunkOk(JSON_parse(region.s).value, response)
            /\ ~IsBlank(response.s) /\ repaired =>
                  result = ChunkOkFixed(_attemptJsonFix(region), response)
            /\ ~IsBlank(response.s) /\ ~parses /\ ~repaired =>
                  result = ChunkFailed(Lit("JSON parsing failed"), response)
            /\ IsOk(result) =>
                  /\ parses \/ repaired
                  /\ parses => result.data = JSON_parse(region.s).value
                  /\ repaired => result.data = _attemptJsonFix(region)

\* C19 witness: a response whose region does not parse has been repaired
C19_Witness ==
    /\ pc = "chunks"
    /\ chunkResults[1].t = "object"
    /\ "wasFixed" \in DOMAIN chunkResults[1]
    /\ JSON_parse(_extractJsonFromText(ChunkAnswer(1).value).s).threw

----------------------------------------------------------------------------
(* The DocAnalyzer of src/analyzers/doc-analyzer.js with the LLMService of *)
(* src/services/llm-service.js: analyzeDocument, one action per iteration  *)
(* of the loop of its _splitIntoChunks and one per query that settles.     *)

\* the number of chunks at which a run of the split loop is cut off
MaxPushes == 5

\* LLMService.query of llm-service.js: never throws, answers with
\* {success, data} or {success: false, error, ...}
LLMService_query(backend, responseFormat) ==
    IF backend.threw
    THEN [t |-> "object", success |-> FALSE,
          error |-> IF Falsy(backend.error) THEN Lit("unknown error")
                    ELSE backend.error,
          details |-> Undefined]
    ELSE IF ~Falsy(responseFormat) /\ Get(responseFormat, "type") = Lit("json_object")
    THEN IF backend.value.t # "string"
         THEN [t |-> "object", success |-> TRUE, data |-> backend.value]
         ELSE IF JSON_parse(backend.value.s).threw
         THEN [t |-> "object", success |-> FALSE,
               error |-> Lit("JSON parsing failed"), rawContent |-> backend.value]
         ELSE [t |-> "object", success |-> TRUE,
               data |-> JSON_parse(backend.value.s).value]
    ELSE [t |-> "object", success |-> TRUE, data |-> backend.value]

\* _analyzeChunk from the point where its query settles: the value it
\* resolves to or the error it rejects with
_analyzeChunk(chunk, result) ==
    IF ~Succeeded(result)
    THEN Throw(WithErrorOf("Chunk analysis failed: ", result))
    ELSE Return([t |-> "object", content |-> result.data, chunkSize |-> Len(chunk)])

\* Array.prototype.join('\n\n') over the contents, null and undefined
\* counting as empty
RECURSIVE JoinContents(_)
JoinContents(results) ==
    IF results = <<>> THEN <<>>
    ELSE (IF IsNullish(Head(results).content) THEN <<>> ELSE Head(results).content.s)
         \o (IF Len(results) > 1 THEN <<"\n", "\n">> ELSE <<>>)
         \o JoinContents(Tail(results))

\* _combineResults of doc-analyzer.js
BasicCombineResults(results) ==
    IF Len(results) = 1 THEN results[1].content ELSE Text(JoinContents(results))

BasicEnvelope(combined, parts, doc) ==
    [t |-> "object", success |-> TRUE, data |-> combined,
     meta |-> [t |-> "object", chunkCount |-> Len(parts),
               documentLength |-> Len(doc.s)]]

\* chunks.map(chunk => this._analyzeChunk(chunk, analysisOptions)): every
\* _analyzeChunk runs up to its query
BasicFanOut(parts) == [i \in 1..Len(parts) |-> Call("chunk", i, Undefined)]

\* the options the DocAnalyzer is built with: the defaults, no overlap, and
\* an overlap as large as the chunk
BasicGivenOptions ==
    { NoOptions,
      [t |-> "object", overlapSize |-> 0],
      [t |-> "object", maxChunkSize |-> 200, overlapSize |-> 200] }

\* documents of one character, of exactly maxChunkSize and of one more, and
\* of more than twice maxChunkSize
BasicDocuments ==
    LET maxChunkSize == DocAnalyzerOptions(NoOptions).maxChunkSize
    IN  {Text(Prose(n)) : n \in {1, maxChunkSize, maxChunkSize + 1,
                                 2 * maxChunkSize + 1}}

\* what the backend does with a request: a content, no content, an error
\* with and without a message
ServiceOutcomes ==
    { Return(Text(JsonText)), Return(Null), Throw(Lit("Connection error.")),
      Throw(Lit("")) }

BasicInit ==
    /\ pc = "idle"
    /\ options \in {DocAnalyzerOptions(given) : given \in BasicGivenOptions}
    /\ document = Undefined
    /\ analysisType = "comprehensive"
    /\ content = <<>>
    /\ chunks = <<>>
    /\ probeOk = Undefined
    /\ calls = <<>>
    /\ chunkResults = <<>>
    /\ envelope = Undefined
    /\ analysisOptions = NoOptions
    /\ overtaken = FALSE
    /\ startPos = 0
    /\ position = 0
    /\ startIndex = 0
    /\ initializeApp

\* analyzeDocument is called: _splitIntoChunks up to its loop; a document
\* that fits one chunk is fanned out at once
BasicAnalyzeDocument(doc) ==
    /\ pc = "idle"
    /\ document' = doc
    /\ position' = 0
    /\ IF Len(doc.s) <= options.maxChunkSize
       THEN /\ chunks' = <<doc.s>>
            /\ calls' = BasicFanOut(chunks')
            /\ chunkResults' = [i \in 1..Len(chunks') |-> Pending]
            /\ pc' = "basic-chunks"
       ELSE /\ chunks' = <<>>
            /\ pc' = "basic-split"
            /\ UNCHANGED <<calls, chunkResults>>
    /\ UNCHANGED <<analysisType, content, probeOk, envelope, analysisOptions,
                   overtaken, options, startPos,
                   startIndex, rendererVars>>

\* one iteration of while (position < document.length); the iteration that
\* leaves the loop, by its break or by the loop condition, goes on to the
\* fan-out
BasicSplitIterate ==
    /\ pc = "basic-split"
    /\ Len(chunks) < MaxPushes
    /\ LET end == MinOf(position + options.maxChunkSize, Len(document.s))
           pushed == Append(chunks, substring(document.s, position, end))
           next == end - options.overlapSize
       IN  /\ chunks' = pushed
           /\ position' = next
           /\ IF \/ next <= 0
                 \/ options.maxChunkSize <= options.overlapSize
                 \/ ~(next < Len(document.s))
              THEN /\ calls' = BasicFanOut(pushed)
                   /\ chunkResults' = [i \in 1..Len(pushed) |-> Pending]
                   /\ pc' = "basic-chunks"
              ELSE UNCHANGED <<pc, calls, chunkResults>>
    /\ UNCHANGED <<document, analysisType, content, probeOk, envelope,
                   analysisOptions, overtaken, options, startPos,
                   startIndex, rendererVars>>

\* the query of chunk i settles: _analyzeChunk resolves or rejects; a
\* rejection rejects Promise.all and analyzeDocument returns from its catch,
\* the last resolution resolves it and analyzeDocument combines and returns
BasicChunkSettles(i, backend) ==
    /\ pc = "basic-chunks"
    /\ i \in 1..Len(chunks)
    /\ chunkResults[i].t = "pending"
    /\ LET result == LLMService_query(backend, Null)
           outcome == _analyzeChunk(chunks[i], result)
           settled == [chunkResults EXCEPT ![i] =
                          IF outcome.threw
                          THEN [t |-> "rejected", error |-> outcome.error]
                          ELSE outcome.value]
       IN  /\ chunkResults' = settled
           /\ calls' = Settle(calls,
                              CHOOSE j \in Outstanding("chunk") : calls[j].chunk = i,
                              Return(result))
           /\ IF outcome.threw
              THEN /\ envelope' = CaughtEnvelope(outcome.error)
                   /\ pc' = "done"
              ELSE IF \A k \in 1..Len(chunks) : settled[k].t = "object"
              THEN /\ envelope' = BasicEnvelope(BasicCombineResults(settled), chunks,
                                                document)
                   /\ pc' = "done"
              ELSE UNCHANGED <<pc, envelope>>
    /\ UNCHANGED <<document, analysisType, content, chunks, probeOk,
                   analysisOptions, overtaken, splitterVars>>

BasicNext ==
    \/ \E doc \in BasicDocuments : BasicAnalyzeDocument(doc)
    \/ BasicSplitIterate
    \/ \E i \in 1..MaxChunks, backend \in ServiceOutcomes :
           BasicChunkSettles(i, backend)

BasicSpec == BasicInit /\ [][BasicNext]_vars

\* C20: with the default options, analyzeDocument on a document longer than
\* maxChunkSize terminates (and then returns success with more than one
\* query issued when every query succeeds); in the form of a step property,
\* every iteration of the split loop that is followed by another one moves
\* position forward, without which the loop cannot end
C20_SplitPositionAdvances ==
    [][/\ options = DocAnalyzerOptions(NoOptions)
       /\ pc = "basic-split"
       /\ pc' = "basic-split"
       => position' > position]_vars

----------------------------------------------------------------------------
(* LLMService._splitTextIntoChunks (llm-service.js, lines 167-192), one     *)
(* action per iteration of its while loop.                                 *)

\* the end of the chunk that starts at startAt: the size limit or the end of
\* the text, moved to the last paragraph break, else past the last sentence
\* end, when the text goes on and the break lies beyond startAt
endIndexOf(text, startAt, size) ==
    LET endIndex == MinOf(startAt + size, Len(text))
        paragraphEnd == lastIndexOfFrom(text, <<"\n", "\n">>, endIndex)
        sentenceEnd == lastIndexOfFrom(text, <<".", " ">>, endIndex)
    IN  IF endIndex < Len(text)
        THEN IF paragraphEnd > startAt THEN paragraphEnd
             ELSE IF sentenceEnd > startAt THEN sentenceEnd + 1
             ELSE endIndex
        ELSE endIndex

\* every chunkSize > 0 with every overlapSize >= 0, below the chunk size and
\* not
TextSplitArguments ==
    {[t |-> "object", chunkSize |-> c, overlapSize |-> o] :
        c \in 1..MaxSize, o \in 0..MaxSize}

TextSplitTexts ==
    UNION {[1..n -> BoundaryAlphabet] : n \in 0..MaxTextLen}

TextSplitInit ==
    /\ pc = "text-split"
    /\ options \in TextSplitArguments
    /\ content \in TextSplitTexts
    /\ chunks = <<>>
    /\ startIndex = 0
    /\ document = Undefined
    /\ analysisType = "comprehensive"
    /\ probeOk = Undefined
    /\ calls = <<>>
    /\ chunkResults = <<>>
    /\ envelope = Undefined
    /\ analysisOptions = NoOptions
    /\ overtaken = FALSE
    /\ startPos = 0
    /\ position = 0
    /\ initializeApp

\* the test of while (startIndex < text.length) and one run of the body
TextSplitIterate ==
    /\ pc = "text-split"
    /\ Len(chunks) < IterationCap(content)
    /\ IF startIndex < Len(content)
       THEN LET endIndex == endIndexOf(content, startIndex, options.chunkSize)
            IN  /\ chunks' = Append(chunks, substring(content, startIndex, endIndex))
                /\ startIndex' = MaxOf(startIndex, endIndex - options.overlapSize)
                /\ UNCHANGED pc
       ELSE /\ pc' = "text-split-done"
            /\ UNCHANGED <<chunks, startIndex>>
    /\ UNCHANGED <<document, analysisType, content, probeOk, calls, chunkResults,
                   envelope, analysisOptions, overtaken, options, startPos,
                   position, rendererVars>>

TextSplitNext == TextSplitIterate

TextSplitSpec == TextSplitInit /\ [][TextSplitNext]_vars

\* C21: every chunk of _splitTextIntoChunks(text, chunkSize, overlapSize) is
\* at most chunkSize long, for every text, chunkSize > 0 and overlapSize >= 0
C21_ChunkWithinSize ==
    pc \in {"text-split", "text-split-done"} =>
        \A i \in 1..Len(chunks) : Len(chunks[i]) <= options.chunkSize

\* C23: _splitTextIntoChunks terminates for every text, every chunkSize > 0
\* and every 0 <= overlapSize < chunkSize; as a step of the loop: every run
\* of the body moves startIndex forward
C23_StartIndexAdvances ==
    [][pc = "text-split" /\ pc' = "text-split"
       /\ options.overlapSize < options.chunkSize
           => startIndex' > startIndex]_vars

----------------------------------------------------------------------------
(* LLMService.processLongText (llm-service.js, lines 102-161): one action  *)
(* for the call, one per iteration of the loop of _splitTextIntoChunks and *)
(* one per query that settles.                                             *)

\* const { chunkSize = 10000, overlapSize = 500 } = options
LongTextOption(given, key) ==
    IF key \in DOMAIN given THEN given[key]
    ELSE IF key = "chunkSize" THEN 10000
    ELSE 500

\* the options of the calls: the defaults, and small chunks without and with
\* an overlap
LongTextOptions ==
    { NoOptions,
      [t |-> "object", chunkSize |-> 2, overlapSize |-> 0],
      [t |-> "object", chunkSize |-> MaxSize, overlapSize |-> 0],
      [t |-> "object", chunkSize |-> 2, overlapSize |-> 1] }

\* the texts of the calls: none, up to MaxTextLen characters of prose, prose
\* with a sentence end and a paragraph break, and one character more than
\* the default chunk size
LongTexts ==
    {Null}
    \cup {Text(Prose(n)) : n \in 0..MaxTextLen}
    \cup {Text(<<"a", ".", " ", "a", "a">>), Text(<<"a", "\n", "\n", "a", "a">>)}
    \cup {Text(Prose(LongTextOption(NoOptions, "chunkSize") + 1))}

\* the number of chunks at which a run of the split loop is cut off
LongTextCap(text) == MinOf(IterationCap(text), MaxPushes)

\* the request of a chunk query: maxTokens: Math.min(2000, options.maxTokens
\* || this.maxTokens)
LongChunkCall(i, given) ==
    Call("chunk", i, [max_tokens |-> Num(MinOf(2000, max_tokens(given).n))])

\* what the loop pushes for the result of the query of part i
LongChunkResult(i, result) ==
    IF Succeeded(result) THEN result.data
    ELSE Lit("[Part " \o ToString(i) \o " processing failed: "
             \o result.error.m \o "]")

\* chunkResults.join("\n\n==== next part ====\n\n"), as the parts and the
\* separator between them
LongMergeCall(results) ==
    Call("merge", 0, [parts |-> results,
                      separator |-> Lit("\n\n==== next part ====\n\n")])

\* the catch block
ProcessFailed(message) ==
    [t |-> "object", success |-> FALSE, error |-> Lit("Process failed: " \o message)]

LongTextInit ==
    /\ pc = "long-idle"
    /\ options = NoOptions
    /\ document = Undefined
    /\ analysisType = "comprehensive"
    /\ content = <<>>
    /\ chunks = <<>>
    /\ probeOk = Undefined
    /\ calls = <<>>
    /\ chunkResults = <<>>
    /\ envelope = Undefined
    /\ analysisOptions = NoOptions
    /\ overtaken = FALSE
    /\ startPos = 0
    /\ position = 0
    /\ startIndex = 0
    /\ initializeApp

\* processLongText is called: the TypeError of longText.length, the single
\* query of a text that fits one chunk, or the entry into the split loop
ProcessLongText(longText, given) ==
    /\ pc = "long-idle"
    /\ document' = longText
    /\ options' = given
    /\ IF longText.t # "string"
       THEN /\ envelope' = ProcessFailed(
                   "Cannot read properties of null (reading 'length')")
            /\ pc' = "done"
            /\ UNCHANGED calls
       ELSE IF Len(longText.s) <= LongTextOption(given, "chunkSize")
       THEN /\ calls' = <<Call("single", 0, Undefined)>>
            /\ pc' = "long-single"
            /\ UNCHANGED envelope
       ELSE /\ pc' = "long-split"
            /\ UNCHANGED <<calls, envelope>>
    /\ UNCHANGED <<analysisType, content, chunks, probeOk, chunkResults,
                   analysisOptions, overtaken, startPos, position, startIndex,
                   rendererVars>>

\* the query of a text that fits one chunk settles: its result is returned
LongSingleSettles(backend) ==
    /\ pc = "long-single"
    /\ envelope' = LLMService_query(backend, Get(options, "responseFormat"))
    /\ calls' = Settle(calls, Min(Outstanding("single")), backend)
    /\ pc' = "done"
    /\ UNCHANGED <<document, analysisType, content, chunks, probeOk, chunkResults,
                   analysisOptions, overtaken, splitterVars>>

\* the test of the while loop of _splitTextIntoChunks and one run of its
\* body; when the loop ends, the for loop issues the query of the first part
LongSplitIterate ==
    /\ pc = "long-split"
    /\ IF startIndex < Len(document.s)
       THEN LET endIndex == endIndexOf(document.s, startIndex,
                                       LongTextOption(options, "chunkSize"))
            IN  /\ Len(chunks) < LongTextCap(document.s)
                /\ chunks' = Append(chunks, substring(document.s, startIndex, endIndex))
                /\ startIndex' = MaxOf(startIndex,
                                       endIndex - LongTextOption(options, "overlapSize"))
                /\ UNCHANGED <<pc, calls>>
       ELSE /\ calls' = <<LongChunkCall(1, options)>>
            /\ pc' = "long-chunks"
            /\ UNCHANGED <<chunks, startIndex>>
    /\ UNCHANGED <<document, analysisType, content, probeOk, chunkResults,
                   envelope, analysisOptions, overtaken, options, startPos,
                   position, rendererVars>>

\* the query of the current part settles: its data or a failure note is
\* pushed, and the loop issues the query of the next part or ends, with the
\* single-part return or the merge query
LongChunkSettles(backend) ==
    /\ pc = "long-chunks"
    /\ LET i == Len(chunkResults) + 1
           result == LLMService_query(backend, Get(options, "responseFormat"))
           pushed == Append(chunkResults, LongChunkResult(i, result))
           settled == Settle(calls, Min(Outstanding("chunk")), backend)
       IN  /\ chunkResults' = pushed
           /\ IF i < Len(chunks)
              THEN /\ calls' = Append(settled, LongChunkCall(i + 1, options))
                   /\ UNCHANGED <<pc, envelope>>
              ELSE IF Len(chunks) = 1
              THEN /\ calls' = settled
                   /\ envelope' = [t |-> "object", success |-> TRUE, data |-> pushed[1]]
                   /\ pc' = "done"
              ELSE /\ calls' = Append(settled, LongMergeCall(pushed))
                   /\ pc' = "long-merge"
                   /\ UNCHANGED envelope
    /\ UNCHANGED <<document, analysisType, content, chunks, probeOk,
                   analysisOptions, overtaken, splitterVars>>

\* the merge query settles: its result is returned
LongMergeSettles(backend) ==
    /\ pc = "long-merge"
    /\ envelope' = LLMService_query(backend, Get(options, "responseFormat"))
    /\ calls' = Settle(calls, Min(Outstanding("merge")), backend)
    /\ pc' = "done"
    /\ UNCHANGED <<document, analysisType, content, chunks, probeOk, chunkResults,
                   analysisOptions, overtaken, splitterVars>>

LongTextNext ==
    \/ \E longText \in LongTexts, given \in LongTextOptions :
           ProcessLongText(longText, given)
    \/ \E backend \in ServiceOutcomes : LongSingleSettles(backend)
    \/ LongSplitIterate
    \/ \E backend \in ServiceOutcomes : LongChunkSettles(backend)
    \/ \E backend \in ServiceOutcomes : LongMergeSettles(backend)

LongTextSpec == LongTextInit /\ [][LongTextNext]_vars

\* the queries of a text longer than chunkSize: the chunk queries in chunk
\* order, never two queries outstanding, a merge query only after every
\* chunk query has settled and only one, and the result of the merge query
\* returned as it is
LongQueriesInOrder ==
    pc \in {"long-chunks", "long-merge", "done"} /\ chunks # <<>> =>
        /\ \A j \in CallsOfKind("chunk") : calls[j].chunk = j /\ j <= Len(chunks)
        /\ Cardinality(Outstanding("chunk") \cup Outstanding("merge")) <= 1
        /\ \A j \in MergeCalls :
              /\ j = Len(chunks) + 1
              /\ Outstanding("chunk") = {}
              /\ Len(chunkResults) = Len(chunks)
        /\ pc = "done" =>
              /\ Cardinality(CallsOfKind("chunk")) = Len(chunks)
              /\ Cardinality(MergeCalls) = 1
              /\ envelope = LLMService_query(MergeAnswer,
                                             Get(options, "responseFormat"))

\* C22: for any text longer than chunkSize and any 0 <= overlapSize <
\* chunkSize (the default 500 included) processLongText issues one query per
\* chunk in chunk order, then exactly one merge query, and resolves to the
\* result of the merge query; as a property of its steps: every run of the
\* body of the split loop moves startIndex forward, so that the loop ends and
\* the queries are issued, and the queries issued are in that order
C22_ChunkQueriesThenOneMerge ==
    [][/\ pc = "long-split" /\ pc' = "long-split" => startIndex' > startIndex
       /\ LongQueriesInOrder']_vars

----------------------------------------------------------------------------
(* The renderer (part_000): one action per click or change event up to the *)
(* await of its handler, and one per reply of the main process.            *)

\* the largest number of handlers suspended at their await at one time
MaxInFlight == 2

\* the values of the analysis-type selection
SelectValues == {"general", "entities", "summary"}

\* what docParser.parseFile returns, as far as the renderer and the analyzer
\* read it
Parsed(name, text) ==
    [t |-> "object",
     fileInfo |-> [t |-> "object", name |-> Text(name)],
     content |-> [t |-> "object", text |-> Text(text)]]

\* the documents a user can upload
UploadedDocuments ==
    { [t |-> "object", text |-> Parsed(FileName, ShortText), fileName |-> Text(FileName)],
      [t |-> "object", text |-> Parsed(<<"g">> \o Tail(FileName), <<"l", "o", "n", "g">> \o ShortText),
       fileName |-> Text(<<"g">> \o Tail(FileName))] }

\* the replies to 'document:upload': a parsed document, or no file selected
UploadReplies ==
    {[t |-> "object", success |-> TRUE, data |-> d] : d \in UploadedDocuments}
    \cup {[t |-> "object", success |-> FALSE, error |-> Lit("No file selected")]}

\* the replies to 'results:save'
SaveReplies ==
    { [t |-> "object", success |-> TRUE, filePath |-> Lit("/tmp/out.json")],
      [t |-> "object", success |-> FALSE, error |-> Lit("Save operation canceled")] }

\* what the backend does with the queries of one analysis
RendererBackends == { Return(Text(JsonText)), Throw(Lit("Connection error.")) }

\* JSON.stringify of a parsed document
StringifyParsed(parsed) ==
    <<"{">> \o JsonQuote(<<"f", "i", "l", "e", "I", "n", "f", "o">>) \o <<":", "{">>
    \o JsonQuote(<<"n", "a", "m", "e">>) \o <<":">> \o JsonQuote(parsed.fileInfo.name.s)
    \o <<"}", ",">> \o JsonQuote(PropertyName("content")) \o <<":", "{">>
    \o JsonQuote(PropertyName("text")) \o <<":">> \o JsonQuote(parsed.content.text.s)
    \o <<"}", "}">>

\* the reply to 'document:analyze' for a parsed document that fits one
\* chunk: analyzeDocument works on the JSON text of the object, and
\* extractEntities and summarizeDocument fail on document.substring
AnalysisReply(text, type, backend) ==
    LET extracted == StringifyParsed(text)
    IN  IF type = "general"
        THEN IF _isBinaryContent(extracted) THEN InvalidContentEnvelope
             ELSE SingleChunkEnvelope(_analyzeChunkWithLLM(query(backend)),
                                      "comprehensive", _cleanTextContent(extracted))
        ELSE IF type = "entities" THEN EntitiesFailure(SubstringTypeError(text))
        ELSE SummaryFailure(SubstringTypeError(text))

\* updateUIState, given the values of currentDocument and currentResults
updateUIState(doc, results) ==
    /\ uploadButton' = [disabled |-> FALSE]
    /\ analyzeButton' = [disabled |-> Falsy(doc)]
    /\ saveButton' = [disabled |-> Falsy(results)]

\* setLoading
setLoading(isLoading, doc, results) ==
    IF isLoading
    THEN /\ uploadButton' = [disabled |-> TRUE]
         /\ analyzeButton' = [disabled |-> TRUE]
         /\ saveButton' = [disabled |-> TRUE]
    ELSE updateUIState(doc, results)

\* the sequence without its element k
Without(seq, k) == SubSeq(seq, 1, k - 1) \o SubSeq(seq, k + 1, Len(seq))

\* { ...o, [k]: v }
Assign(o, k, v) == [x \in DOMAIN o \cup {k} |-> IF x = k THEN v ELSE o[x]]

\* the keys of an object that hold something other than undefined
Defined(o, k) == k \in DOMAIN o /\ o[k].t # "undefined"

\* the isEmpty test of handleSaveResults
isEmpty(results) ==
    \/ Falsy(results)
    \/ DOMAIN results \ {"t", "success"} = {}
    \/ Get(results, "data").t = "undefined"
    \/ Get(results, "data") \in {Text(<<>>), Lit("")}

\* results.success !== undefined && results.data !== undefined &&
\* results.meta !== undefined
HasEnvelopeShape(results) ==
    "success" \in DOMAIN results /\ Defined(results, "data") /\ Defined(results, "meta")

\* the meta that formatResultsForSaving writes over the one it finds
SavedMeta(meta, data) ==
    Assign(Assign(Assign(Assign(meta,
        "timestamp", Lit("toISOString")),
        "analysisType", analysisTypeSelect.value),
        "documentName", documentName(currentDocument)),
        "chunkCount", IF data.t = "array" THEN Len(data.elements) ELSE 0)

\* formatResultsForSaving: an object with success, data and meta is filled
\* in and changed in place, anything else is wrapped
formatResultsForSaving(results) ==
    IF HasEnvelopeShape(results)
    THEN LET fromRaw == IF Falsy(results.data) /\ ~Falsy(Get(results, "rawAnalysis"))
                        THEN results.rawAnalysis ELSE results.data
             others == DOMAIN results \ {"t", "success", "meta", "data"}
             data == IF Falsy(fromRaw) /\ others # {}
                     THEN [k \in others \cup {"t"} |-> results[k]]
                     ELSE fromRaw
         IN  [results EXCEPT !.data = data, !.meta = SavedMeta(results.meta, data)]
    ELSE [t |-> "object", success |-> TRUE, data |-> results,
          meta |-> SavedMeta([t |-> "object"], results)]

\* `${baseFileName.split('.')[0]}-${analysisType}-analysis.json`
suggestedFileName(doc, type) ==
    LET baseFileName == IF Falsy(Get(doc, "fileName"))
                        THEN <<"d", "o", "c", "u", "m", "e", "n", "t">>
                        ELSE doc.fileName.s
        dot == indexOf(baseFileName, <<".">>)
    IN  [t |-> "template",
         base |-> IF dot = -1 THEN baseFileName ELSE substring(baseFileName, 0, dot),
         analysisType |-> type,
         suffix |-> Lit("-analysis.json")]

\* what the renderer never writes
pipelineVars == <<pc, document, analysisType, content, chunks, probeOk, calls,
                  chunkResults, envelope, analysisOptions, overtaken, options,
                  startPos, position, startIndex>>

\* a click on the upload button: handleDocumentUpload up to its await
ClickUpload ==
    /\ ~uploadButton.disabled
    /\ Len(inFlight) < MaxInFlight
    /\ setLoading(TRUE, currentDocument, currentResults)
    /\ inFlight' = Append(inFlight, [op |-> "upload"])
    /\ UNCHANGED <<currentDocument, currentResults, analysisTypeSelect, saved,
                   analysed, pipelineVars>>

\* the reply to an upload arrives: the document is taken and the results
\* are dropped, or the error is shown
UploadSettles(k, result) ==
    /\ k \in 1..Len(inFlight)
    /\ inFlight[k].op = "upload"
    /\ inFlight' = Without(inFlight, k)
    /\ IF result.success
       THEN /\ currentDocument' = result.data
            /\ currentResults' = Null
            /\ analysed' = Undefined
            /\ setLoading(FALSE, result.data, Null)
       ELSE /\ setLoading(FALSE, currentDocument, currentResults)
            /\ UNCHANGED <<currentDocument, currentResults, analysed>>
    /\ UNCHANGED <<analysisTypeSelect, saved, pipelineVars>>

\* a click on the analyze button: handleDocumentAnalysis up to its await
ClickAnalyze ==
    /\ ~analyzeButton.disabled
    /\ Len(inFlight) < MaxInFlight
    /\ IF Falsy(currentDocument)
       THEN UNCHANGED <<uploadButton, analyzeButton, saveButton, inFlight>>
       ELSE /\ setLoading(TRUE, currentDocument, currentResults)
            /\ inFlight' = Append(inFlight,
                   [op |-> "analyze", text |-> currentDocument.text,
                    analysisType |-> analysisTypeSelect.value,
                    document |-> currentDocument])
    /\ UNCHANGED <<currentDocument, currentResults, analysisTypeSelect, saved,
                   analysed, pipelineVars>>

\* the reply to an analysis arrives: the results are taken, or the error is
\* shown
AnalysisSettles(k, backend) ==
    /\ k \in 1..Len(inFlight)
    /\ inFlight[k].op = "analyze"
    /\ inFlight' = Without(inFlight, k)
    /\ LET result == AnalysisReply(inFlight[k].text, inFlight[k].analysisType, backend)
       IN  IF result.success
           THEN /\ currentResults' = result
                /\ analysed' = [document |-> inFlight[k].document, envelope |-> result]
                /\ setLoading(FALSE, currentDocument, result)
           ELSE /\ setLoading(FALSE, currentDocument, currentResults)
                /\ UNCHANGED <<currentResults, analysed>>
    /\ UNCHANGED <<currentDocument, analysisTypeSelect, saved, pipelineVars>>

\* a click on the save button: handleSaveResults up to its await
ClickSave ==
    /\ ~saveButton.disabled
    /\ Len(inFlight) < MaxInFlight
    /\ IF Falsy(currentResults)
       THEN UNCHANGED <<currentResults, uploadButton, analyzeButton, saveButton,
                        inFlight, saved>>
       ELSE IF isEmpty(currentResults)
       THEN /\ setLoading(FALSE, currentDocument, currentResults)
            /\ UNCHANGED <<currentResults, inFlight, saved>>
       ELSE /\ currentResults' = IF HasEnvelopeShape(currentResults)
                                 THEN formatResultsForSaving(currentResults)
                                 ELSE currentResults
            /\ saved' = [data |-> formatResultsForSaving(currentResults),
                         fileName |-> suggestedFileName(currentDocument,
                                                        analysisTypeSelect.value)]
            /\ setLoading(TRUE, currentDocument, currentResults')
            /\ inFlight' = Append(inFlight, [op |-> "save"])
    /\ UNCHANGED <<currentDocument, analysisTypeSelect, analysed, pipelineVars>>

\* the reply to a save arrives
SaveSettles(k, result) ==
    /\ k \in 1..Len(inFlight)
    /\ inFlight[k].op = "save"
    /\ inFlight' = Without(inFlight, k)
    /\ saved' = Undefined
    /\ setLoading(FALSE, currentDocument, currentResults)
    /\ UNCHANGED <<currentDocument, currentResults, analysisTypeSelect, analysed,
                   pipelineVars>>

\* the analysis type is changed: the listener calls updateUIState
SelectChange(value) ==
    /\ value # analysisTypeSelect.value
    /\ analysisTypeSelect' = [value |-> value]
    /\ updateUIState(currentDocument, currentResults)
    /\ UNCHANGED <<currentDocument, currentResults, inFlight, saved, analysed,
                   pipelineVars>>

RendererNext ==
    \/ ClickUpload
    \/ \E k \in 1..MaxInFlight, result \in UploadReplies : UploadSettles(k, result)
    \/ ClickAnalyze
    \/ \E k \in 1..MaxInFlight, backend \in RendererBackends : AnalysisSettles(k, backend)
    \/ ClickSave
    \/ \E k \in 1..MaxInFlight, result \in SaveReplies : SaveSettles(k, result)
    \/ \E value \in SelectValues : SelectChange(value)

RendererSpec == Init /\ [][RendererNext]_vars

\* C28: while an upload, an analysis or a save is in flight the upload,
\* analyze and save buttons are all disabled, whatever events arrive, and so
\* at most one operation is in flight at any time
C28_ButtonsDisabledWhileInFlight ==
    inFlight # <<>> =>
        /\ uploadButton.disabled
        /\ analyzeButton.disabled
        /\ saveButton.disabled
        /\ Len(inFlight) = 1

\* C29: whenever currentResults is non-null it is the result of analysing the
\* document held in currentDocument
C29_ResultsOfCurrentDocument ==
    ~Falsy(currentResults) => analysed.document = currentDocument

\* C30: the object handed to saveResults has the meta.chunkCount and the
\* meta.analysisType of the envelope the analysis returned, whatever the
\* selection is at the time of saving, and saving leaves currentResults as it
\* was
C30_SavePreservesMeta ==
    [][saved' # Undefined /\ saved' # saved =>
          /\ saved'.data.meta.chunkCount = analysed.envelope.meta.chunkCount
          /\ saved'.data.meta.analysisType = analysed.envelope.meta.analysisType
          /\ currentResults' = currentResults]_vars

====
